---- MODULE Spec2Model ----
(***************************************************************************)
(* Model of the deep-research streaming backend: the single-session        *)
(* streaming endpoint and the multi-model comparison endpoint of main.py,  *)
(* the event generator of services/deep_research_service.py, the model     *)
(* registry of services/model_service.py and the metrics store of          *)
(* utils/metrics.py with its durable backend services/supabase_service.py. *)
(*                                                                         *)
(* Text is modelled as a sequence of one-character strings ("s" is a       *)
(* blank, every other character is printable).  Wall-clock time is the     *)
(* integer variable now; it advances only between handler steps, so the    *)
(* scheduling jitter inside one step is zero.  The research engine         *)
(* (deep_researcher.astream) is the environment: at each await it delivers *)
(* a chunk, ends, or raises.                                               *)
(***************************************************************************)
EXTENDS Integers, Sequences, FiniteSets, TLC

VARIABLES
    now,              \* time.time()
    s_pc,             \* position of the /research/stream request
    s_req,            \* the ResearchRequest being served
    s_status,         \* HTTP status of the /research/stream response
    s_id,             \* research_id of generate_research_stream
    s_start,          \* start_time of generate_research_stream
    s_gen,            \* the stream_research generator of the single session
    s_eng,            \* the engine stream behind s_gen
    frames,           \* the frames delivered to the client, in order
    research_history, \* MetricsCollector.research_history
    model_metrics,    \* MetricsCollector.model_metrics
    last,             \* the last call of the MetricsCollector and what it returned
    c_pc,             \* position of the /research/compare request
    c_models,         \* request.models of the comparison
    c_keys,           \* the entries of request.api_keys the handler reads
    c_status,         \* HTTP status of the /research/compare response
    c_id,             \* session_id of the comparison
    runs,             \* the run_model_research tasks, by index in request.models
    arrival,          \* indices of the tasks in the order they finished
    c_session,        \* the ComparisonSession returned, or NoSession
    sb_available,     \* SupabaseService.client is not None
    sb_sessions,      \* rows of table comparison_sessions
    sb_results,       \* rows of table comparison_results
    m_models,         \* ModelService._models
    m_calls,          \* the calls made on the ModelService and what they returned
    yielded           \* the events a stand-in for stream_research has yielded

vars == <<now, s_pc, s_req, s_status, s_id, s_start, s_gen, s_eng, frames,
          research_history, model_metrics, last, c_pc, c_models, c_keys, c_status,
          c_id, runs, arrival, c_session, sb_available, sb_sessions, sb_results,
          m_models, m_calls, yielded>>

streamVars == <<s_pc, s_req, s_status, s_id, s_start, s_gen, s_eng, frames>>
storeVars == <<research_history, model_metrics, last>>
compareVars == <<c_pc, c_models, c_keys, c_status, c_id, runs, arrival, c_session>>
backendVars == <<sb_sessions, sb_results>>
registryVars == <<m_models, m_calls>>

-----------------------------------------------------------------------------
(* Bounds *)

\* engine updates delivered to a single session
MaxStreamChunks == 2
\* engine updates delivered to the run of a one-model comparison
MaxChunks == 3
\* engine updates delivered to each run of a concurrent comparison
MaxCmpChunks == 2
\* engine updates delivered to each run of a comparison whose engines
\* eventually stop
MaxLiveChunks == 1
\* events the stand-in for stream_research yields
MaxYielded == 3
\* calls made on the model registry
MaxRegistryCalls == 2
\* length of request.models of a comparison
MaxModels == 2
\* last value of the clock
MaxTime == 2
\* last value of the clock while calls are made directly on the metrics store
MaxStoreTime == 1
\* records the calls made directly on the metrics store may add
MaxRecords == 2
\* largest limit of a history query
MaxLimit == 2

-----------------------------------------------------------------------------
(* Text *)

RECURSIVE LStrip(_)
LStrip(t) == IF t # <<>> /\ Head(t) = "s" THEN LStrip(Tail(t)) ELSE t

RECURSIVE RStrip(_)
RStrip(t) ==
    IF t # <<>> /\ t[Len(t)] = "s" THEN RStrip(SubSeq(t, 1, Len(t) - 1)) ELSE t

\* str.strip()
Strip(t) == RStrip(LStrip(t))

-----------------------------------------------------------------------------
(* Model registry: services/model_service.py *)

\* ModelService._initialize_models: the ids of self._models, in dict order
RegistryIds == <<"openai", "anthropic", "kimi">>

\* ModelService.get_available_models: [model.id for model in ["models"]]
AvailableModelIds == {RegistryIds[i] : i \in 1..Len(RegistryIds)}

\* a model id no registry entry carries
UnknownModel == "invalid-model"

-----------------------------------------------------------------------------
(* Stages and events: the values of ResearchStage and the fields of        *)
(* StreamingEvent that the code sets.                                      *)

INITIALIZATION == "initialization"
CLARIFICATION == "clarification"
RESEARCH_BRIEF == "research_brief"
RESEARCH_EXECUTION == "research_execution"
FINAL_REPORT == "final_report"
COMPLETED == "completed"
ERROR == "error"

\* the stage value of a frame that carries no stage (built in main.py)
NoStage == "none"

\* Python's None
None == "<None>"

\* StreamingEvent(type, stage, content, metadata..., error); content is the
\* sequence of its lines, count is metadata node_count / total_nodes, index is
\* metadata finding_index, and the absent fields are "", 0 or None.
Event(type, stage, content, node, count, index, error) ==
    [type |-> type, stage |-> stage, content |-> content, node_name |-> node,
     count |-> count, index |-> index, error |-> error]

\* an event whose metadata has one more key
WithMetadata(event, key, value) ==
    [f \in DOMAIN event \cup {key} |-> IF f = key THEN value ELSE event[f]]

-----------------------------------------------------------------------------
(* Engine payloads.  A payload is probed with hasattr: notes is the list   *)
(* of the lengths of str(note) it exposes (empty: no notes attribute or an *)
(* empty list), compressed tells whether it exposes a compressed_research  *)
(* summary, raises marks an object whose attribute lookup raises something *)
(* other than AttributeError, and unsized marks an object whose notes      *)
(* attribute is a true value that has no length and cannot be iterated.    *)

Plain == [notes |-> <<>>, compressed |-> FALSE, raises |-> FALSE, unsized |-> FALSE]
Rich == [notes |-> <<30, 60>>, compressed |-> TRUE, raises |-> FALSE,
         unsized |-> FALSE]
Broken == [notes |-> <<>>, compressed |-> FALSE, raises |-> TRUE, unsized |-> FALSE]
Unsized == [notes |-> <<>>, compressed |-> TRUE, raises |-> FALSE, unsized |-> TRUE]

Payloads == {Plain, Rich, Broken, Unsized}

NodeNames == {"clarify_with_user", "write_research_brief", "research_supervisor",
              "final_report_generation", "custom_node"}

Node(name, data) == [name |-> name, data |-> data]

\* the single-node updates: every node with a plain payload, the supervisor
\* with every payload, and an unmapped node with a payload that has notes
Nodes ==
    {n \in [name : NodeNames, data : Payloads] :
        \/ n.data = Plain
        \/ n.name = "research_supervisor"
        \/ n.name = "custom_node" /\ n.data = Rich}

\* an update of two nodes that ran in parallel
PairChunks ==
    {<<Node("write_research_brief", Plain), Node("research_supervisor", Rich)>>}

\* the chunks deep_researcher.astream may deliver to a single session
Chunks == {<<n>> : n \in Nodes} \cup PairChunks

\* the chunks it may deliver to the run of a one-model comparison: one node
\* of the workflow each, with a plain payload
PlainChunks == {<<Node(name, Plain)>> : name \in NodeNames \ {"custom_node"}}

\* the chunks it may deliver to the run of a one-model comparison under the
\* clock: those of the nodes before the final report, and the supervisor with
\* a payload that cannot be probed
TimedChunks ==
    (PlainChunks \ {<<Node("final_report_generation", Plain)>>})
    \cup {<<Node("research_supervisor", Broken)>>}

\* the chunks it delivers, in this order, to a run of a concurrent comparison
CmpScript == << <<Node("clarify_with_user", Plain)>>,
                <<Node("research_supervisor", Rich)>>,
                <<Node("final_report_generation", Plain)>> >>

\* the chunk that follows the ones already delivered to such a run
CmpChunks(delivered) == {CmpScript[(Len(delivered) % Len(CmpScript)) + 1]}

\* the failure descriptions the engine raises with
Failures == {"auth failed", "engine crashed"}

\* the failure description the engine of a comparison task raises with
CmpFailures == {"engine crashed"}

-----------------------------------------------------------------------------
(* Event translator: DeepResearchService._process_workflow_node and its    *)
(* helpers.                                                                *)

\* minimum length of a note shown in the content of the supervisor's event
ContentNoteMinLen == 20
\* minimum length of a note that gets a research_finding event
FindingMinLen == 50
\* notes shown in the content of the supervisor's event
ContentNoteLimit == 3

\* str(e) of the exception an unprobeable payload raises
ProbeFailure == "probe failed"

\* mutant of StageMapping: the default of the lookup is the first stage
StageMappingDefaultFirst(node_name) ==
    CASE node_name = "clarify_with_user" -> CLARIFICATION
      [] node_name = "write_research_brief" -> RESEARCH_BRIEF
      [] node_name = "research_supervisor" -> RESEARCH_EXECUTION
      [] node_name = "final_report_generation" -> FINAL_REPORT
      [] OTHER -> CLARIFICATION

\* mutant of StageMapping: the brief has no entry of its own
StageMappingNoBrief(node_name) ==
    CASE node_name = "clarify_with_user" -> CLARIFICATION
      [] node_name = "research_supervisor" -> RESEARCH_EXECUTION
      [] node_name = "final_report_generation" -> FINAL_REPORT
      [] OTHER -> RESEARCH_EXECUTION

\* stage_mapping.get(node_name, ResearchStage.RESEARCH_EXECUTION)
StageMapping(node_name) ==
    CASE node_name = "clarify_with_user" -> CLARIFICATION
      [] node_name = "write_research_brief" -> RESEARCH_BRIEF
      [] node_name = "research_supervisor" -> RESEARCH_EXECUTION
      [] node_name = "final_report_generation" -> FINAL_REPORT
      [] OTHER -> RESEARCH_EXECUTION

\* the lines "Finding i: ..." of the first notes[:3] longer than 20
RECURSIVE FindingLines(_, _)
FindingLines(notes, i) ==
    IF i > Len(notes) \/ i > ContentNoteLimit THEN <<>>
    ELSE (IF notes[i] > ContentNoteMinLen THEN <<"finding">> ELSE <<>>)
         \o FindingLines(notes, i + 1)

\* _extract_text_content on a payload without messages: the text of
\* str(node_data.__dict__) when it is longer than 100, else ""
ExtractTextContent(node_data) ==
    IF node_data.notes # <<>> /\ node_data.compressed THEN <<"text">> ELSE <<>>

\* mutant of GenerateNodeContent: a node without a template of its own gets
\* no content
GenerateNodeContentBare(node_name, node_data, node_count) ==
    IF node_data.raises THEN <<"fallback">>
    ELSE CASE node_name \in {"clarify_with_user", "write_research_brief",
                             "final_report_generation"} ->
                <<"step">> \o ExtractTextContent(node_data)
           [] node_name = "research_supervisor" ->
                IF node_data.unsized THEN <<"fallback">>
                ELSE <<"step">>
                     \o (IF node_data.notes # <<>>
                         THEN <<"found">> \o FindingLines(node_data.notes, 1)
                         ELSE <<>>)
                     \o (IF node_data.compressed THEN <<"summary">> ELSE <<>>)
           [] OTHER -> <<>>

\* _generate_node_content: the lines of the content.  The first probe of an
\* unprobeable payload raises inside the try, and so does len() of the
\* supervisor's unsized notes; the except returns the templated fallback line.
GenerateNodeContent(node_name, node_data, node_count) ==
    IF node_data.raises THEN <<"fallback">>
    ELSE CASE node_name \in {"clarify_with_user", "write_research_brief",
                             "final_report_generation"} ->
                <<"step">> \o ExtractTextContent(node_data)
           [] node_name = "research_supervisor" ->
                IF node_data.unsized THEN <<"fallback">>
                ELSE <<"step">>
                     \o (IF node_data.notes # <<>>
                         THEN <<"found">> \o FindingLines(node_data.notes, 1)
                         ELSE <<>>)
                     \o (IF node_data.compressed THEN <<"summary">> ELSE <<>>)
           [] OTHER -> <<"step">>

\* mutant of ProcessWorkflowNode: the supervisor's update is reported as a
\* tool usage and the final report as the sources it found
ProcessWorkflowNodeTools(node_name, node_data, node_count) ==
    IF node_data.raises
    THEN Event("error", ERROR, <<"error processing">>, "", 0, 0, ProbeFailure)
    ELSE IF node_name = "research_supervisor"
    THEN WithMetadata(Event("tool_usage", StageMapping(node_name), <<>>,
                            node_name, node_count, 0, None),
                      "tool_name", "ConductResearch")
    ELSE IF node_name = "final_report_generation"
    THEN WithMetadata(Event("sources_found", StageMapping(node_name), <<>>,
                            node_name, node_count, 0, None),
                      "sources", <<"u1">>)
    ELSE Event("stage_update", StageMapping(node_name),
               GenerateNodeContent(node_name, node_data, node_count),
               node_name, node_count, 0, None)

\* _process_workflow_node: the stage_update event of the node, or the error
\* event of its except branch when building the metadata probes a payload that
\* raises
ProcessWorkflowNode(node_name, node_data, node_count) ==
    IF node_data.raises
    THEN Event("error", ERROR, <<"error processing">>, "", 0, 0, ProbeFailure)
    ELSE Event("stage_update", StageMapping(node_name),
               GenerateNodeContent(node_name, node_data, node_count),
               node_name, node_count, 0, None)

\* the research_finding events of _process_research_supervisor_data
RECURSIVE FindingEvents(_, _, _)
FindingEvents(notes, i, node_count) ==
    IF i > Len(notes) THEN <<>>
    ELSE (IF notes[i] > FindingMinLen
          THEN <<Event("research_finding", RESEARCH_EXECUTION, <<"finding">>,
                       "", node_count, i, None)>>
          ELSE <<>>)
         \o FindingEvents(notes, i + 1, node_count)

\* mutant of ProcessResearchSupervisorData: the summary comes first
ProcessResearchSupervisorDataSummaryFirst(node_data, node_count) ==
    IF node_data.raises \/ node_data.unsized THEN <<>>
    ELSE (IF node_data.compressed
          THEN <<Event("research_summary", RESEARCH_EXECUTION, <<"summary">>,
                       "", node_count, 0, None)>>
          ELSE <<>>)
         \o FindingEvents(node_data.notes, 1, node_count)

\* _process_research_supervisor_data: the supplementary events; a payload
\* that raises or whose notes cannot be iterated yields none (the except
\* swallows the failure, and with it the summary)
ProcessResearchSupervisorData(node_data, node_count) ==
    IF node_data.raises \/ node_data.unsized THEN <<>>
    ELSE FindingEvents(node_data.notes, 1, node_count)
         \o (IF node_data.compressed
             THEN <<Event("research_summary", RESEARCH_EXECUTION, <<"summary">>,
                          "", node_count, 0, None)>>
             ELSE <<>>)

-----------------------------------------------------------------------------
(* Research stream orchestrator: DeepResearchService.stream_research.  A   *)
(* generator is [pc, current_stage, node_count]; each step returns the new *)
(* generator, the events it yields and the exception that leaves it (None:  *)
(* no exception reaches the consumer).                                     *)

NewGen == [pc |-> "new", current_stage |-> INITIALIZATION, node_count |-> 0]

GenStep(gen, out, raised) == [gen |-> gen, out |-> out, raised |-> raised]

\* lines 63-92: the initial event, then the engine is invoked
GenStart(query, model) ==
    GenStep([pc |-> "awaiting", current_stage |-> INITIALIZATION, node_count |-> 0],
            <<Event("stage_start", INITIALIZATION, <<"start">>, "", 0, 0, None)>>,
            None)

\* lines 97-111, for the nodes of one chunk from position i on: the events
\* yielded
RECURSIVE ChunkEvents(_, _, _)
ChunkEvents(chunk, i, node_count) ==
    IF i > Len(chunk) THEN <<>>
    ELSE <<ProcessWorkflowNode(chunk[i].name, chunk[i].data, node_count)>>
         \o (IF chunk[i].name = "research_supervisor"
             THEN ProcessResearchSupervisorData(chunk[i].data, node_count)
             ELSE <<>>)
         \o ChunkEvents(chunk, i + 1, node_count)

\* line 103: current_stage after the chunk is the stage of the primary event
\* of its last node
ChunkStage(chunk, node_count) ==
    ProcessWorkflowNode(chunk[Len(chunk)].name, chunk[Len(chunk)].data,
                        node_count).stage

\* lines 88-111: one update of the engine
GenChunk(gen, chunk) ==
    GenStep([gen EXCEPT !.node_count = gen.node_count + 1,
                        !.current_stage = ChunkStage(chunk, gen.node_count + 1)],
            ChunkEvents(chunk, 1, gen.node_count + 1),
            None)

\* mutant of GenEnd: the generator returns without its completion event
GenEndSilent(gen) == GenStep([gen EXCEPT !.pc = "done"], <<>>, None)

\* lines 113-122: the engine's stream is exhausted
GenEnd(gen) ==
    GenStep([gen EXCEPT !.pc = "done"],
            <<Event("stage_complete", COMPLETED, <<"completed">>, "",
                    gen.node_count, 0, None)>>,
            None)

\* mutant of GenFail: the error event carries the initial stage
GenFailAtInit(gen, failure) ==
    GenStep([gen EXCEPT !.pc = "done"],
            <<Event("error", INITIALIZATION, <<"error occurred">>, "", 0, 0,
                    failure)>>,
            None)

\* mutant of GenFail: the exception leaves the generator
GenFailRaised(gen, failure) == GenStep([gen EXCEPT !.pc = "done"], <<>>, failure)

\* lines 124-134: the engine raised
GenFail(gen, failure) ==
    GenStep([gen EXCEPT !.pc = "done"],
            <<Event("error", gen.current_stage, <<"error occurred">>, "", 0, 0,
                    failure)>>,
            None)

\* the engine stream behind a generator: the invocations of astream, the
\* chunks delivered, its status and the exception it raised
NewEngine == [calls |-> 0, delivered |-> <<>>, status |-> "idle", failure |-> None]

-----------------------------------------------------------------------------
(* Metrics store: utils/metrics.py *)

\* MetricsCollector.__init__
InitModelMetrics ==
    [m \in {"openai", "anthropic", "kimi"} |->
        [requests |-> <<>>, total_duration |-> 0, success_count |-> 0]]

\* a call of the collector: its name, its argument and what it returned
Call(op, arg, ret) == [op |-> op, arg |-> arg, ret |-> ret]

NoCall == Call(None, None, None)

\* mutant of HistoryAfterRun: a record with the id of an earlier record takes
\* its place
HistoryAfterRunOverwrite(history, research_id, model, duration, query, success, error, ts) ==
    LET record == [research_id |-> research_id, model |-> model,
                   duration |-> duration, query |-> query, success |-> success,
                   timestamp |-> ts, error |-> error]
        Same(item) == "research_id" \in DOMAIN item /\ item.research_id = research_id
    IN IF \E k \in 1..Len(history) : Same(history[k])
       THEN [k \in 1..Len(history) |->
                IF Same(history[k]) THEN record ELSE history[k]]
       ELSE Append(history, record)

\* store_research_metrics, lines 63-73: the history after the append
HistoryAfterRun(history, research_id, model, duration, query, success, error, ts) ==
    Append(history,
           [research_id |-> research_id, model |-> model, duration |-> duration,
            query |-> query, success |-> success, timestamp |-> ts,
            error |-> error])

\* mutant of MetricsAfterRun: the call is suspended after the request is
\* appended, before the totals are updated
MetricsAfterRunSuspended(metrics, model, duration, success, ts) ==
    IF model \in DOMAIN metrics
    THEN [metrics EXCEPT ![model].requests =
            Append(@, [duration |-> duration, success |-> success,
                       timestamp |-> ts])]
    ELSE metrics

\* store_research_metrics, lines 75-84: the per-model metrics after the update
MetricsAfterRun(metrics, model, duration, success, ts) ==
    IF model \in DOMAIN metrics
    THEN [metrics EXCEPT ![model] =
            [requests |-> Append(@.requests,
                                 [duration |-> duration, success |-> success,
                                  timestamp |-> ts]),
             total_duration |-> @.total_duration + duration,
             success_count |-> @.success_count + (IF success THEN 1 ELSE 0)]]
    ELSE metrics

-----------------------------------------------------------------------------
(* Single-session streaming endpoint: main.py stream_research and its      *)
(* generate_research_stream.                                               *)

\* the texts a request's query and api_key are drawn from
Texts == {<<>>, <<"s">>, <<"k">>}

\* the model ids a request names
RequestModels == AvailableModelIds \cup {UnknownModel}

NoRequest == [query |-> <<>>, model |-> None, api_key |-> <<>>]

\* lines 113-126: the status of the HTTPException raised inside the try, 0
\* when the request passes
StreamValidation(query, model, api_key) ==
    IF Strip(query) = <<>> THEN 400
    ELSE IF Strip(api_key) = <<>> THEN 400
    ELSE IF model \notin AvailableModelIds THEN 400
    ELSE 0

\* lines 178 and 191-193: the status the client gets.  HTTPException is an
\* Exception, so the handler's own except catches the 400 and raises a 500.
StreamResponseStatus(raised) == IF raised # 0 THEN 500 ELSE 200

\* a frame built by generate_research_stream itself
MainFrame(type, message, duration) ==
    [type |-> type, stage |-> NoStage, content |-> <<>>, node_name |-> "",
     count |-> 0, index |-> 0, error |-> message, duration |-> duration]

\* line 144: json.dumps(event.dict())
JsonFrame(event) ==
    [type |-> event.type, stage |-> event.stage, content |-> event.content,
     node_name |-> event.node_name, count |-> event.count,
     index |-> event.index, error |-> event.error, duration |-> 0]

JsonFrames(events) == [i \in 1..Len(events) |-> JsonFrame(events[i])]

\* f"research_{int(time.time())}"
ResearchId(t) == <<"research", t>>

\* POST /research/stream, lines 112-126 and 178-193
StreamRequest ==
    /\ s_pc = "idle"
    /\ \E query \in Texts, model \in RequestModels, api_key \in Texts :
         LET raised == StreamValidation(query, model, api_key) IN
         /\ s_req' = [query |-> query, model |-> model, api_key |-> api_key]
         /\ s_status' = StreamResponseStatus(raised)
         /\ s_pc' = IF raised = 0 THEN "accepted" ELSE "rejected"
    /\ UNCHANGED <<now, s_id, s_start, s_gen, s_eng, frames>>
    /\ UNCHANGED <<storeVars, compareVars, sb_available,
                   registryVars, yielded, backendVars>>

\* mutant of SessionStart: the response body starts without its first frame
SessionStartSilent ==
    /\ s_pc = "accepted"
    /\ s_id' = ResearchId(now)
    /\ s_start' = now
    /\ s_pc' = "started"
    /\ UNCHANGED <<now, s_req, s_status, s_gen, s_eng, frames>>
    /\ UNCHANGED <<storeVars, compareVars, sb_available,
                   registryVars, yielded, backendVars>>

\* lines 129-135: the response body starts
SessionStart ==
    /\ s_pc = "accepted"
    /\ s_id' = ResearchId(now)
    /\ s_start' = now
    /\ frames' = Append(frames, MainFrame("session_start", None, 0))
    /\ s_pc' = "started"
    /\ UNCHANGED <<now, s_req, s_status, s_gen, s_eng>>
    /\ UNCHANGED <<storeVars, compareVars, sb_available,
                   registryVars, yielded, backendVars>>

\* lines 138-144 and 168-176: the frames of one generator step; an exception
\* out of the generator is answered with the error frame and ends the body
StreamDeliver(step) ==
    /\ s_gen' = step.gen
    /\ IF step.raised # None
       THEN /\ frames' = frames \o JsonFrames(step.out)
                         \o <<MainFrame("error", step.raised, 0)>>
            /\ s_pc' = "closed"
       ELSE /\ frames' = frames \o JsonFrames(step.out)
            /\ s_pc' = "streaming"

\* the generator is started: its initial event, then astream is invoked
StreamBegin ==
    /\ s_pc = "started"
    /\ StreamDeliver(GenStart(s_req.query, s_req.model))
    /\ s_eng' = [s_eng EXCEPT !.calls = @ + 1, !.status = "open"]
    /\ UNCHANGED <<now, s_req, s_status, s_id, s_start>>
    /\ UNCHANGED <<storeVars, compareVars, sb_available,
                   registryVars, yielded, backendVars>>

\* the engine delivers an update
StreamChunk ==
    /\ s_pc = "streaming" /\ s_gen.pc = "awaiting"
    /\ Len(s_eng.delivered) < MaxStreamChunks
    /\ \E chunk \in Chunks :
         /\ s_eng' = [s_eng EXCEPT !.delivered = Append(@, chunk)]
         /\ StreamDeliver(GenChunk(s_gen, chunk))
    /\ UNCHANGED <<now, s_req, s_status, s_id, s_start>>
    /\ UNCHANGED <<storeVars, compareVars, sb_available,
                   registryVars, yielded, backendVars>>

\* the engine's stream ends
StreamEnd ==
    /\ s_pc = "streaming" /\ s_gen.pc = "awaiting"
    /\ s_eng' = [s_eng EXCEPT !.status = "ended"]
    /\ StreamDeliver(GenEnd(s_gen))
    /\ UNCHANGED <<now, s_req, s_status, s_id, s_start>>
    /\ UNCHANGED <<storeVars, compareVars, sb_available,
                   registryVars, yielded, backendVars>>

\* the engine raises
StreamFail ==
    /\ s_pc = "streaming" /\ s_gen.pc = "awaiting"
    /\ \E failure \in Failures :
         /\ s_eng' = [s_eng EXCEPT !.status = "failed", !.failure = failure]
         /\ StreamDeliver(GenFail(s_gen, failure))
    /\ UNCHANGED <<now, s_req, s_status, s_id, s_start>>
    /\ UNCHANGED <<storeVars, compareVars, sb_available,
                   registryVars, yielded, backendVars>>

\* mutant of StreamComplete: the end time is recorded as the duration
StreamCompleteSinceEpoch ==
    /\ s_pc = "streaming" /\ s_gen.pc = "done"
    /\ LET duration == now - s_start IN
       /\ frames' = Append(frames, MainFrame("research_complete", None, duration))
       /\ research_history' =
            HistoryAfterRun(research_history, s_id, s_req.model, now,
                            s_req.query, TRUE, None, now)
       /\ model_metrics' =
            MetricsAfterRun(model_metrics, s_req.model, now, TRUE, now)
       /\ last' = Call("store_research_metrics", s_id, None)
    /\ s_pc' = "closed"
    /\ UNCHANGED <<now, s_req, s_status, s_id, s_start, s_gen, s_eng>>
    /\ UNCHANGED <<compareVars, sb_available, registryVars, yielded, backendVars>>

\* lines 146-166: the generator is exhausted; the completion frame, then the
\* run is recorded
StreamComplete ==
    /\ s_pc = "streaming" /\ s_gen.pc = "done"
    /\ LET duration == now - s_start IN
       /\ frames' = Append(frames, MainFrame("research_complete", None, duration))
       /\ research_history' =
            HistoryAfterRun(research_history, s_id, s_req.model, duration,
                            s_req.query, TRUE, None, now)
       /\ model_metrics' =
            MetricsAfterRun(model_metrics, s_req.model, duration, TRUE, now)
       /\ last' = Call("store_research_metrics", s_id, None)
    /\ s_pc' = "closed"
    /\ UNCHANGED <<now, s_req, s_status, s_id, s_start, s_gen, s_eng>>
    /\ UNCHANGED <<compareVars, sb_available, registryVars, yielded, backendVars>>

\* time passes
Tick ==
    /\ now < MaxTime
    /\ now' = now + 1
    /\ UNCHANGED <<streamVars, storeVars, compareVars, sb_available,
                   registryVars, yielded, backendVars>>

-----------------------------------------------------------------------------
(* Durable backend: services/supabase_service.py *)

\* SupabaseService.store_comparison_session, lines 54-87.  failAt is the
\* insert that raises (1: the session row, k + 1: the k-th result row), 0 when
\* none does; the rows inserted before it stay.  The table stamps a result row
\* with created_at (DEFAULT NOW()).
SbSessionsAfter(sessions, session, failAt) ==
    IF failAt = 1 THEN sessions
    ELSE Append(sessions, [session_id |-> session.session_id,
                           query |-> session.query,
                           timestamp |-> session.timestamp])

SbResultsAfter(results, session, failAt) ==
    LET n == IF failAt = 0 THEN Len(session.results) ELSE failAt - 2 IN
    results \o [k \in 1..(IF n < 0 THEN 0 ELSE n) |->
                  [session_id |-> session.session_id,
                   result |-> session.results[k], created_at |-> now]]

-----------------------------------------------------------------------------
(* Comparison orchestrator: main.py run_multi_model_comparison and its     *)
(* run_model_research.                                                     *)

\* StageTimings()
ZeroTimings ==
    [clarification |-> 0, research_brief |-> 0, research_execution |-> 0,
     final_report |-> 0]

NoResult == [raised |-> None, value |-> None]
NoSession == [session_id |-> None]

\* lines 246-254: the locals of a task before it requests its first event
NewRun(model, t) ==
    [model |-> model, pc |-> "running", gen |-> NewGen, eng |-> NewEngine,
     start_time |-> t, stage_start_time |-> t, current_stage |-> "clarification",
     stage_timings |-> ZeroTimings, sources_found |-> 0,
     supervisor_tools |-> <<>>, report_content |-> <<>>, result |-> NoResult]

\* mutant of CreditStage: a stage without a field is billed to the research
CreditStageElsewhere(timings, stage, duration) ==
    IF stage \in DOMAIN timings
    THEN [timings EXCEPT ![stage] = duration]
    ELSE [timings EXCEPT !.research_execution = duration]

\* lines 268-275 (and 299-306, 317-324): the duration is stored in the field
\* of the stage that ends; a stage without a field is not recorded
CreditStage(timings, stage, duration) ==
    IF stage \in DOMAIN timings
    THEN [timings EXCEPT ![stage] = duration]
    ELSE timings

\* event.metadata.get("sources", []); no event of stream_research carries the
\* key
EventSources(event) == IF "sources" \in DOMAIN event THEN event.sources ELSE <<>>

\* event.metadata.get("tool_name"); no event of stream_research carries the
\* key
EventTool(event) == IF "tool_name" \in DOMAIN event THEN event.tool_name ELSE None

\* mutant of ConsumeEvent: a source event counts as one source
ConsumeEventPerEvent(run, event, t) ==
    LET moved == event.stage # run.current_stage
        tool == EventTool(event)
    IN [run EXCEPT
          !.stage_timings =
              IF moved THEN CreditStage(@, run.current_stage, t - run.stage_start_time)
              ELSE @,
          !.current_stage = IF moved THEN event.stage ELSE @,
          !.stage_start_time = IF moved THEN t ELSE @,
          !.sources_found = IF event.type = "sources_found" THEN @ + 1 ELSE @,
          !.supervisor_tools =
              IF /\ event.type = "tool_usage" /\ tool # None
                 /\ \A k \in 1..Len(@) : @[k] # tool
              THEN Append(@, tool) ELSE @,
          !.report_content = IF event.content # <<>> THEN @ \o event.content ELSE @]

\* lines 264-295: the body of the loop for one event, at time t
ConsumeEvent(run, event, t) ==
    LET moved == event.stage # run.current_stage
        tool == EventTool(event)
    IN [run EXCEPT
          !.stage_timings =
              IF moved THEN CreditStage(@, run.current_stage, t - run.stage_start_time)
              ELSE @,
          !.current_stage = IF moved THEN event.stage ELSE @,
          !.stage_start_time = IF moved THEN t ELSE @,
          !.sources_found =
              IF event.type = "sources_found" THEN @ + Len(EventSources(event))
              ELSE @,
          !.supervisor_tools =
              IF /\ event.type = "tool_usage" /\ tool # None
                 /\ \A k \in 1..Len(@) : @[k] # tool
              THEN Append(@, tool) ELSE @,
          !.report_content = IF event.content # <<>> THEN @ \o event.content ELSE @]

RECURSIVE ConsumeEvents(_, _, _, _)
ConsumeEvents(run, events, i, t) ==
    IF i > Len(events) THEN run
    ELSE ConsumeEvents(ConsumeEvent(run, events[i], t), events, i + 1, t)

\* mutant of FinishRun: the result of a task is a success whatever ended it
FinishRunSucceeded(run, raised, t) ==
    LET timings == CreditStage(run.stage_timings, run.current_stage,
                               t - run.stage_start_time)
    IN [run EXCEPT
          !.pc = "done",
          !.stage_timings = timings,
          !.result =
              [raised |-> None,
               value |-> [model |-> run.model,
                          duration |-> t - run.start_time,
                          stage_timings |-> timings,
                          sources_found |-> run.sources_found,
                          word_count |-> Len(run.report_content),
                          success |-> TRUE,
                          error |-> raised,
                          report_content |-> run.report_content,
                          supervisor_tools_used |-> run.supervisor_tools]]]

\* lines 297-339: the task returns its ComparisonResult; raised is the
\* exception the loop ended with, None when the generator was exhausted
FinishRun(run, raised, t) ==
    LET timings == CreditStage(run.stage_timings, run.current_stage,
                               t - run.stage_start_time)
    IN [run EXCEPT
          !.pc = "done",
          !.stage_timings = timings,
          !.result =
              [raised |-> None,
               value |-> [model |-> run.model,
                          duration |-> t - run.start_time,
                          stage_timings |-> timings,
                          sources_found |-> run.sources_found,
                          word_count |-> Len(run.report_content),
                          success |-> (raised = None),
                          error |-> raised,
                          report_content |-> run.report_content,
                          supervisor_tools_used |-> run.supervisor_tools]]]

\* lines 256-326: the task consumes the events of one generator step
RunStep(run, step, t) ==
    LET fed == ConsumeEvents([run EXCEPT !.gen = step.gen], step.out, 1, t) IN
    IF step.raised # None THEN FinishRun(fed, step.raised, t)
    ELSE IF step.gen.pc = "done" THEN FinishRun(fed, None, t)
    ELSE fed

\* mutant of TaskStep: a task whose engine raised cancels its siblings
TaskStepAbort(rs, i, run) ==
    [j \in 1..Len(rs) |->
        IF j = i THEN run
        ELSE IF run.eng.status = "failed" /\ rs[j].pc = "running"
             THEN FinishRun(rs[j], "cancelled", rs[j].stage_start_time)
             ELSE rs[j]]

\* lines 342-343: asyncio.gather runs the tasks independently; a step of
\* task i changes task i alone
TaskStep(rs, i, run) == [rs EXCEPT ![i] = run]

\* mutant of Gather: the results are collected as the tasks finish
GatherByArrival(rs, order) == [k \in 1..Len(rs) |-> rs[order[k]].result]

\* line 343: the results of gather, in the order of the tasks
Gather(rs, order) == [i \in 1..Len(rs) |-> rs[i].result]

\* lines 346-363: an exception among the results becomes an error result
ValidResults(results, models) ==
    [i \in 1..Len(results) |->
        IF results[i].raised # None
        THEN [model |-> models[i], duration |-> 0, stage_timings |-> ZeroTimings,
              sources_found |-> 0, word_count |-> 0, success |-> FALSE,
              error |-> results[i].raised, report_content |-> <<>>,
              supervisor_tools_used |-> <<>>]
        ELSE results[i].value]

\* mutant of CompareValidation: only the first requested model is validated
CompareValidationFirstOnly(models, api_keys, i) ==
    IF models[1] \notin AvailableModelIds THEN 400
    ELSE IF models[1] \notin DOMAIN api_keys \/ Strip(api_keys[models[1]]) = <<>>
         THEN 400
    ELSE 0

\* lines 229-239: the status of the HTTPException the validation loop raises
\* from position i on, 0 when every model passes
RECURSIVE CompareValidation(_, _, _)
CompareValidation(models, api_keys, i) ==
    IF i > Len(models) THEN 0
    ELSE IF models[i] \notin AvailableModelIds THEN 400
    ELSE IF models[i] \notin DOMAIN api_keys \/ Strip(api_keys[models[i]]) = <<>>
         THEN 400
    ELSE CompareValidation(models, api_keys, i + 1)

\* lines 376-380: the status the client gets; the handler's own except turns
\* the HTTPException of the validation into a 500
CompareResponseStatus(raised) == IF raised # 0 THEN 500 ELSE 200

\* f"compare_{int(time.time())}"
CompareId(t) == <<"compare", t>>

\* the query of the comparison requests
CompareQuery == <<"k">>

\* the model ids a comparison request names
CompareModels == {"openai", "anthropic", UnknownModel}

\* request.models: the lists of 1..n ids
ModelLists(n) == UNION {[1..k -> CompareModels] : k \in 1..n}

\* request.api_keys: a text for some of the ids
KeyMaps == UNION {[d -> Texts] : d \in SUBSET CompareModels}

\* the entries of api_keys the handler reads: those of the requested models
KeysRead(models, api_keys) ==
    [m \in {models[i] : i \in 1..Len(models)} \cap DOMAIN api_keys |-> api_keys[m]]

\* lines 246-263: a task is started at time t0 and runs up to its first await
\* of the engine; the generator's initial event reaches its loop at time t1
StartRun(model, t0, t1) ==
    LET run == RunStep(NewRun(model, t0), GenStart(CompareQuery, model), t1) IN
    [run EXCEPT !.eng = [@ EXCEPT !.calls = @ + 1, !.status = "open"]]

\* POST /research/compare, lines 224-263 and 342-343, for the requests lists
\* allows: validation, then the tasks are started one after the other, each
\* running up to its first await of the engine.  delays are the times a task
\* may take from reading its start time to consuming the initial event.
CompareRequestOf(lists, delays) ==
    /\ c_pc = "idle"
    /\ \E models \in lists, api_keys \in KeyMaps, d \in delays :
         LET raised == CompareValidation(models, api_keys, 1) IN
         /\ c_models' = models
         /\ c_keys' = KeysRead(models, api_keys)
         /\ IF raised # 0
            THEN /\ d = 0
                 /\ c_pc' = "rejected"
                 /\ c_status' = CompareResponseStatus(raised)
                 /\ UNCHANGED <<now, c_id, runs>>
            ELSE /\ now + Len(models) * d <= MaxTime
                 /\ c_pc' = "running"
                 /\ c_id' = CompareId(now)
                 /\ runs' = [i \in 1..Len(models) |->
                               StartRun(models[i], now + (i - 1) * d, now + i * d)]
                 /\ now' = now + Len(models) * d
                 /\ UNCHANGED c_status
    /\ UNCHANGED <<arrival, c_session>>
    /\ UNCHANGED <<streamVars, storeVars, sb_available,
                   registryVars, yielded, backendVars>>

\* a step of task i: the new tasks, and the arrival order when it finished
RunDeliver(i, eng, step) ==
    LET run == RunStep([runs[i] EXCEPT !.eng = eng], step, now) IN
    /\ runs' = TaskStep(runs, i, run)
    /\ arrival' = IF run.pc = "done" THEN Append(arrival, i) ELSE arrival

\* the engine delivers an update to task i
RunChunkOf(i, chunks, max) ==
    /\ c_pc = "running" /\ runs[i].pc = "running"
    /\ Len(runs[i].eng.delivered) < max
    /\ \E chunk \in chunks :
         RunDeliver(i, [runs[i].eng EXCEPT !.delivered = Append(@, chunk)],
                    GenChunk(runs[i].gen, chunk))
    /\ UNCHANGED <<now, c_pc, c_models, c_keys, c_status, c_id, c_session>>
    /\ UNCHANGED <<streamVars, storeVars, sb_available,
                   registryVars, yielded, backendVars>>

\* the engine's stream of task i ends
RunEnd ==
    /\ c_pc = "running"
    /\ \E i \in 1..Len(runs) :
         /\ runs[i].pc = "running"
         /\ RunDeliver(i, [runs[i].eng EXCEPT !.status = "ended"],
                       GenEnd(runs[i].gen))
    /\ UNCHANGED <<now, c_pc, c_models, c_keys, c_status, c_id, c_session>>
    /\ UNCHANGED <<streamVars, storeVars, sb_available,
                   registryVars, yielded, backendVars>>

\* the engine of task i raises
RunFail ==
    /\ c_pc = "running"
    /\ \E i \in 1..Len(runs), failure \in CmpFailures :
         /\ runs[i].pc = "running"
         /\ RunDeliver(i, [runs[i].eng EXCEPT !.status = "failed",
                                              !.failure = failure],
                       GenFail(runs[i].gen, failure))
    /\ UNCHANGED <<now, c_pc, c_models, c_keys, c_status, c_id, c_session>>
    /\ UNCHANGED <<streamVars, storeVars, sb_available,
                   registryVars, yielded, backendVars>>

\* MetricsCollector.store_comparison_session, lines 151-156: the in-memory
\* history after the fallback append
HistoryAfterSession(history, session) ==
    Append(history, [type |-> "comparison_session", data |-> session,
                     timestamp |-> session.timestamp])

\* MetricsCollector.store_comparison_session, lines 159-173: the per-model
\* metrics after the results from position k on are added
RECURSIVE MetricsAfterSession(_, _, _)
MetricsAfterSession(metrics, session, k) ==
    IF k > Len(session.results) THEN metrics
    ELSE LET result == session.results[k]
             next ==
                 IF result.model \in DOMAIN metrics
                 THEN [metrics EXCEPT ![result.model] =
                         [requests |->
                             Append(@.requests,
                                    [research_id |-> session.session_id,
                                     duration |-> result.duration,
                                     success |-> result.success,
                                     timestamp |-> session.timestamp,
                                     stage_timings |-> result.stage_timings,
                                     sources_found |-> result.sources_found,
                                     word_count |-> result.word_count]),
                          total_duration |-> @.total_duration + result.duration,
                          success_count |->
                             @.success_count + (IF result.success THEN 1 ELSE 0)]]
                 ELSE metrics
         IN MetricsAfterSession(next, session, k + 1)

\* mutant of StoreComparisonSession: a failed write to the durable backend
\* is reported and nothing is recorded in memory
StoreComparisonSessionNoFallback(session) ==
    \E failAt \in 0..(Len(session.results) + 1) :
        /\ sb_available \/ failAt = 0
        /\ IF sb_available
           THEN /\ sb_sessions' = SbSessionsAfter(sb_sessions, session, failAt)
                /\ sb_results' = SbResultsAfter(sb_results, session, failAt)
           ELSE UNCHANGED backendVars
        /\ IF sb_available
           THEN /\ UNCHANGED <<research_history, model_metrics>>
                /\ last' = Call("store_comparison_session", session.session_id,
                                failAt = 0)
           ELSE /\ research_history' = HistoryAfterSession(research_history, session)
                /\ model_metrics' = MetricsAfterSession(model_metrics, session, 1)
                /\ last' = Call("store_comparison_session", session.session_id,
                                TRUE)

\* MetricsCollector.store_comparison_session, lines 142-176: the durable
\* backend first, the in-memory store when it is absent or its write fails;
\* True is returned either way
StoreComparisonSession(session) ==
    \E failAt \in 0..(Len(session.results) + 1) :
        /\ sb_available \/ failAt = 0
        /\ IF sb_available
           THEN /\ sb_sessions' = SbSessionsAfter(sb_sessions, session, failAt)
                /\ sb_results' = SbResultsAfter(sb_results, session, failAt)
           ELSE UNCHANGED backendVars
        /\ IF sb_available /\ failAt = 0
           THEN UNCHANGED <<research_history, model_metrics>>
           ELSE /\ research_history' = HistoryAfterSession(research_history, session)
                /\ model_metrics' = MetricsAfterSession(model_metrics, session, 1)
        /\ last' = Call("store_comparison_session", session.session_id, TRUE)

\* mutant of CompareFinish: a session that the durable backend did not take
\* is answered with a 500 and not returned
CompareFinishStrict ==
    /\ c_pc = "running"
    /\ \A i \in 1..Len(runs) : runs[i].pc = "done"
    /\ LET session ==
             [session_id |-> c_id, query |-> CompareQuery, timestamp |-> now,
              results |-> ValidResults(Gather(runs, arrival), c_models)]
       IN /\ StoreComparisonSession(session)
          /\ IF sb_available /\ research_history' # research_history
             THEN c_session' = NoSession /\ c_status' = 500
             ELSE c_session' = session /\ c_status' = CompareResponseStatus(0)
    /\ c_pc' = "returned"
    /\ UNCHANGED <<now, c_models, c_keys, c_id, runs, arrival>>
    /\ UNCHANGED <<streamVars, sb_available, registryVars, yielded>>

\* mutant of CompareFinish: the results are awaited without
\* return_exceptions, and a comparison with a failed engine is never answered
CompareFinishNoFailure ==
    /\ c_pc = "running"
    /\ \A i \in 1..Len(runs) : runs[i].pc = "done" /\ runs[i].eng.status # "failed"
    /\ LET session ==
             [session_id |-> c_id, query |-> CompareQuery, timestamp |-> now,
              results |-> ValidResults(Gather(runs, arrival), c_models)]
       IN /\ StoreComparisonSession(session)
          /\ c_session' = session
    /\ c_pc' = "returned"
    /\ c_status' = CompareResponseStatus(0)
    /\ UNCHANGED <<now, c_models, c_keys, c_id, runs, arrival>>
    /\ UNCHANGED <<streamVars, sb_available, registryVars, yielded>>

\* lines 343-376: every task has finished; the session is assembled, stored
\* and returned
CompareFinish ==
    /\ c_pc = "running"
    /\ \A i \in 1..Len(runs) : runs[i].pc = "done"
    /\ LET session ==
             [session_id |-> c_id, query |-> CompareQuery, timestamp |-> now,
              results |-> ValidResults(Gather(runs, arrival), c_models)]
       IN /\ StoreComparisonSession(session)
          /\ c_session' = session
    /\ c_pc' = "returned"
    /\ c_status' = CompareResponseStatus(0)
    /\ UNCHANGED <<now, c_models, c_keys, c_id, runs, arrival>>
    /\ UNCHANGED <<streamVars, sb_available, registryVars, yielded>>

\* the comparison requests of up to MaxModels models; the clock stands still
CompareRequest == CompareRequestOf(ModelLists(MaxModels), {0})

\* the engine delivers an update to a task of the concurrent comparison
RunChunk == \E i \in 1..Len(runs) :
    RunChunkOf(i, CmpChunks(runs[i].eng.delivered), MaxCmpChunks)

\* the engine delivers an update to a task of a comparison whose engines
\* eventually stop
LiveChunk == \E i \in 1..Len(runs) :
    RunChunkOf(i, CmpChunks(runs[i].eng.delivered), MaxLiveChunks)

\* the comparison requests of one model, whose task takes no time or one
\* unit of the clock to reach its first await
TimedRequest == CompareRequestOf(ModelLists(1), {0, 1})

\* the engine delivers an update to the task of a one-model comparison
TimedChunk == \E i \in 1..Len(runs) : RunChunkOf(i, TimedChunks, MaxChunks)

\* the comparison requests of one model; the clock stands still
SingleRequest == CompareRequestOf(ModelLists(1), {0})

\* the engine delivers any update to the task of a one-model comparison
AnyChunk == \E i \in 1..Len(runs) : RunChunkOf(i, Chunks, MaxStreamChunks)

-----------------------------------------------------------------------------
(* Metrics store operations: MetricsCollector.delete_research and          *)
(* get_research_history, and the calls that record into the store.  An     *)
(* item of research_history is the dict of a single run or the dict of a   *)
(* comparison session, which has no "research_id" key.                     *)

\* item["research_id"] raises KeyError on an item without that key
HasResearchId(item) == "research_id" \in DOMAIN item

\* the items from position k on whose research_id differs from research_id
RECURSIVE Without(_, _, _)
Without(history, research_id, k) ==
    IF k > Len(history) THEN <<>>
    ELSE (IF history[k].research_id # research_id THEN <<history[k]>> ELSE <<>>)
         \o Without(history, research_id, k + 1)

\* delete_research, lines 287-304: the history afterwards and the value
\* returned.  The comprehension reads item["research_id"] of every item; the
\* KeyError of a comparison-session item is caught by the except, which
\* returns False before research_history is assigned.
DeleteResearchResult(history, research_id) ==
    IF \E k \in 1..Len(history) : ~HasResearchId(history[k])
    THEN [history |-> history, ret |-> FALSE]
    ELSE LET kept == Without(history, research_id, 1) IN
         [history |-> kept, ret |-> Len(kept) < Len(history)]

\* sorted(..., key=timestamp, reverse=True) is stable: an item goes behind
\* the items whose timestamp is not smaller
InsertByTimestamp(sorted, item) ==
    LET n == Cardinality({k \in 1..Len(sorted) :
                             sorted[k].timestamp >= item.timestamp})
    IN SubSeq(sorted, 1, n) \o <<item>> \o SubSeq(sorted, n + 1, Len(sorted))

\* lines 103-107: the items up to position k, most recent first
RECURSIVE SortedHistory(_, _)
SortedHistory(history, k) ==
    IF k = 0 THEN <<>>
    ELSE InsertByTimestamp(SortedHistory(history, k - 1), history[k])

\* seq[:limit]
Slice(seq, limit) ==
    IF limit >= 0
    THEN SubSeq(seq, 1, IF limit < Len(seq) THEN limit ELSE Len(seq))
    ELSE SubSeq(seq, 1, IF Len(seq) + limit > 0 THEN Len(seq) + limit ELSE 0)

\* lines 112-120: ResearchHistory(...).dict() of an item
HistoryItem(item) ==
    [research_id |-> item.research_id, query |-> item.query, model |-> item.model,
     duration |-> item.duration, success |-> item.success,
     timestamp |-> item.timestamp]

\* get_research_history, lines 101-130: the dictionary returned.  Building
\* the ResearchHistory of a comparison-session item among the first limit
\* items raises KeyError, and the except returns the empty answer.
GetResearchHistoryResult(history, limit) ==
    LET top == Slice(SortedHistory(history, Len(history)), limit) IN
    IF \E k \in 1..Len(top) : ~HasResearchId(top[k])
    THEN [history |-> <<>>, total_count |-> 0, error |-> "KeyError"]
    ELSE [history |-> [k \in 1..Len(top) |-> HistoryItem(top[k])],
          total_count |-> Len(history), error |-> None]

\* the models of the runs recorded directly
StoreModels == {"openai", "anthropic"}

\* the ComparisonResult of a run of model that took duration
StoreResult(model, duration) ==
    [model |-> model, duration |-> duration, stage_timings |-> ZeroTimings,
     sources_found |-> 0, word_count |-> 0, success |-> TRUE, error |-> None,
     report_content |-> <<>>, supervisor_tools_used |-> <<>>]

\* the records written so far: the requests of the per-model metrics, which
\* no call removes, and the session rows of the backend
Recorded ==
    Len(model_metrics["openai"].requests) + Len(model_metrics["anthropic"].requests)
    + Len(model_metrics["kimi"].requests) + Len(sb_sessions)

\* store_research_metrics as generate_research_stream calls it (main.py
\* lines 161-166) for a session that started at time t
RecordSingleRun ==
    /\ Recorded < MaxRecords
    /\ \E model \in StoreModels, t \in 0..now :
         /\ research_history' =
              HistoryAfterRun(research_history, ResearchId(t), model, now - t,
                              CompareQuery, TRUE, None, now)
         /\ model_metrics' = MetricsAfterRun(model_metrics, model, now - t, TRUE, now)
         /\ last' = Call("store_research_metrics", ResearchId(t), None)
    /\ UNCHANGED <<now, streamVars, compareVars, sb_available,
                   registryVars, yielded, backendVars>>

\* store_comparison_session as run_multi_model_comparison calls it (main.py
\* line 374) for the session of one model
RecordComparisonSession ==
    /\ Recorded < MaxRecords
    /\ \E model \in StoreModels :
         StoreComparisonSession(
             [session_id |-> CompareId(now), query |-> CompareQuery,
              timestamp |-> now, results |-> <<StoreResult(model, 0)>>])
    /\ UNCHANGED <<now, streamVars, compareVars, sb_available, registryVars, yielded>>

\* the ComparisonResult of a run of model that spent duration in the research
\* execution stage
TimedResult(model, duration) ==
    [StoreResult(model, duration) EXCEPT
        !.stage_timings = [ZeroTimings EXCEPT !.research_execution = duration]]

\* store_comparison_session for the session of one model whose run took one
\* or two units of time
RecordTimedSession ==
    /\ Recorded < MaxRecords
    /\ \E model \in StoreModels, duration \in 1..2 :
         StoreComparisonSession(
             [session_id |-> CompareId(now), query |-> CompareQuery,
              timestamp |-> now, results |-> <<TimedResult(model, duration)>>])
    /\ UNCHANGED <<now, streamVars, compareVars, sb_available, registryVars, yielded>>

\* DELETE /research/history/{research_id}
DeleteResearch ==
    /\ \E t \in 0..MaxStoreTime :
         LET res == DeleteResearchResult(research_history, ResearchId(t)) IN
         /\ research_history' = res.history
         /\ last' = Call("delete_research", ResearchId(t), res.ret)
    /\ UNCHANGED <<now, model_metrics, streamVars, compareVars, sb_available,
                   registryVars, yielded,
                   backendVars>>

\* GET /research/history?limit=
GetResearchHistory ==
    /\ \E limit \in 0..MaxLimit :
         last' = Call("get_research_history", limit,
                      GetResearchHistoryResult(research_history, limit))
    /\ UNCHANGED <<now, research_history, model_metrics, streamVars, compareVars,
                   sb_available, registryVars, yielded, backendVars>>

\* the keys of MetricsCollector.model_metrics, in dict order, and the list
\* models of SupabaseService.get_model_metrics
MetricsModels == <<"openai", "anthropic", "kimi">>

\* round(n / d, digits) in units of 1 / scale (scale = 10 ^ digits)
Round(n, d, scale) == (2 * scale * n + d) \div (2 * d)

\* sum(...) of a list of numbers
RECURSIVE Sum(_)
Sum(seq) == IF seq = <<>> THEN 0 ELSE Head(seq) + Sum(Tail(seq))

\* max(...) of a non-empty list of timestamps
MaxOf(seq) == CHOOSE x \in {seq[k] : k \in 1..Len(seq)} :
                  \A k \in 1..Len(seq) : seq[k] <= x

\* a quotient that the code does not round, kept as numerator and denominator
Quotient(n, d) == <<n, d>>

\* the fields of StageTimings
StageFields == DOMAIN ZeroTimings

\* ModelMetrics(...): average_duration and success_rate in hundredths,
\* average_sources_found in tenths, average_word_count in units
ModelMetricsOf(model, total, duration, rate, last_used, timings, sources, words) ==
    [model |-> model, total_requests |-> total,
     average_duration |-> duration, success_rate |-> rate,
     last_used |-> last_used, average_stage_timings |-> timings,
     average_sources_found |-> sources, average_word_count |-> words]

\* get_model_comparison, lines 205-261: the entry of one model of the
\* in-memory metrics, as a list of one ModelMetrics
MemoryModelMetrics(model_id, metrics) ==
    LET requests == metrics.requests
        request_count == Len(requests)
        timed == SelectSeq(requests, LAMBDA req : "stage_timings" \in DOMAIN req)
        Got(req, key) == IF key \in DOMAIN req THEN req[key] ELSE 0
        sources_total ==
            Sum([k \in 1..request_count |-> Got(requests[k], "sources_found")])
        words_total ==
            Sum([k \in 1..request_count |-> Got(requests[k], "word_count")])
    IN IF request_count > 0
       THEN <<ModelMetricsOf(
                model_id, request_count,
                Round(metrics.total_duration, request_count, 100),
                Round(100 * metrics.success_count, request_count, 100),
                MaxOf([k \in 1..request_count |-> requests[k].timestamp]),
                IF timed = <<>> THEN None
                ELSE [f \in StageFields |->
                        Quotient(Sum([k \in 1..Len(timed) |->
                                        timed[k].stage_timings[f]]),
                                 request_count)],
                Round(sources_total, request_count, 10),
                Round(words_total, request_count, 1))>>
       ELSE <<ModelMetricsOf(model_id, 0, 0, 0, None, None, 0, 0)>>

\* SupabaseService.get_model_metrics, lines 160-209: the entry of one model,
\* none when the table holds no result of it (line 169: continue)
SbModelMetrics(results, model) ==
    LET rows == SelectSeq(results, LAMBDA r : r.result.model = model)
        total_requests == Len(rows)
        Col(F(_)) == [k \in 1..total_requests |-> F(rows[k].result)]
        Duration(r) == r.duration
        Succeeded(r) == IF r.success THEN 1 ELSE 0
        Sources(r) == r.sources_found
        Words(r) == r.word_count
    IN IF total_requests = 0 THEN <<>>
       ELSE <<ModelMetricsOf(
                model, total_requests,
                Round(Sum(Col(Duration)), total_requests, 100),
                Round(100 * Sum(Col(Succeeded)), total_requests, 100),
                MaxOf([k \in 1..total_requests |-> rows[k].created_at]),
                [f \in StageFields |->
                    Quotient(Sum([k \in 1..total_requests |->
                                    rows[k].result.stage_timings[f]]),
                             total_requests)],
                Round(Sum(Col(Sources)), total_requests, 10),
                Round(Sum(Col(Words)), total_requests, 1))>>

\* SupabaseService.get_model_metrics, lines 152-215: the list returned; a
\* query that raises is answered with the empty list
GetModelMetrics(results, readFails) ==
    LET Entry(i) == SbModelMetrics(results, MetricsModels[i]) IN
    IF readFails THEN <<>> ELSE Entry(1) \o Entry(2) \o Entry(3)

\* ModelComparison(models, total_requests)
ModelComparisonOf(models) ==
    [models |-> models,
     total_requests |-> Sum([k \in 1..Len(models) |-> models[k].total_requests])]

\* get_model_comparison, lines 189-275: the aggregates of the durable backend
\* when it is available and returns any, else those of the in-memory metrics
GetModelComparisonResult(metrics, available, results, readFails) ==
    LET supabase_metrics == GetModelMetrics(results, readFails)
        Entry(i) == MemoryModelMetrics(MetricsModels[i], metrics[MetricsModels[i]])
    IN IF available /\ supabase_metrics # <<>>
       THEN ModelComparisonOf(supabase_metrics)
       ELSE ModelComparisonOf(Entry(1) \o Entry(2) \o Entry(3))

\* GET /research/comparison
GetModelComparison ==
    /\ \E readFails \in BOOLEAN :
         /\ sb_available \/ ~readFails
         /\ last' = Call("get_model_comparison", None,
                         GetModelComparisonResult(model_metrics, sb_available,
                                                  sb_results, readFails))
    /\ UNCHANGED <<now, research_history, model_metrics, streamVars, compareVars,
                   sb_available, registryVars, yielded, backendVars>>

\* time passes between two calls on the store
StoreTick ==
    /\ now < MaxStoreTime
    /\ now' = now + 1
    /\ UNCHANGED <<streamVars, storeVars, compareVars, sb_available,
                   registryVars, yielded, backendVars>>

-----------------------------------------------------------------------------
(* Model registry operations: the methods of ModelService and the calls    *)
(* made on it.                                                             *)

\* a dict entry
Item(key, value) == [key |-> key, value |-> value]

\* AvailableModel(id, provider, max_tokens), the fields the callers read
AvailableModel(id, provider, max_tokens) ==
    [id |-> id, provider |-> provider, max_tokens |-> max_tokens]

\* ModelService._initialize_models: the dict, as the list of its items in
\* insertion order
InitializeModels ==
    <<Item("openai", AvailableModel("openai", "OpenAI", 128000)),
      Item("anthropic", AvailableModel("anthropic", "Anthropic", 200000)),
      Item("kimi", AvailableModel("kimi", "Moonshot AI", 128000))>>

\* ModelService.get_available_models: list(self._models.values()) and its
\* length
GetAvailableModels(models) ==
    [models |-> [k \in 1..Len(models) |-> models[k].value],
     total_count |-> Len(models)]

\* the values of the items whose key is model_id: none or one
ValuesAt(models, model_id) ==
    LET found == SelectSeq(models, LAMBDA item : item.key = model_id) IN
    [k \in 1..Len(found) |-> found[k].value]

\* mutant of GetModelConfig: the dict is indexed, and an unknown id raises
GetModelConfigIndexed(models, model_id) ==
    IF ValuesAt(models, model_id) = <<>> THEN <<"KeyError">>
    ELSE ValuesAt(models, model_id)

\* ModelService.get_model_config: self._models.get(model_id), an
\* Optional[AvailableModel]: the list of the configuration, empty for None
GetModelConfig(models, model_id) == ValuesAt(models, model_id)

\* ModelService.validate_model: model_id in self._models
ValidateModel(models, model_id) ==
    \E k \in 1..Len(models) : models[k].key = model_id

\* the ids the registry is asked about: those of the requests, and the name
\* of a provider
RegistryInputs == {"openai", "anthropic", "kimi", UnknownModel, "OpenAI"}

\* a call is made and logged; no method of ModelService assigns _models
RegistryCall(op, arg, ret) ==
    /\ Len(m_calls) < MaxRegistryCalls
    /\ m_calls' = Append(m_calls, Call(op, arg, ret))
    /\ UNCHANGED <<m_models, now, streamVars, storeVars, compareVars, sb_available,
                   backendVars, yielded>>

\* GET /models
ListAvailable ==
    RegistryCall("get_available_models", None, GetAvailableModels(m_models))

\* get_model_config(model_id)
Resolve ==
    \E model_id \in RegistryInputs :
        RegistryCall("get_model_config", model_id, GetModelConfig(m_models, model_id))

\* validate_model(model_id)
IsSupported ==
    \E model_id \in RegistryInputs :
        RegistryCall("validate_model", model_id, ValidateModel(m_models, model_id))

-----------------------------------------------------------------------------
(* The loop of run_model_research over the events of a stand-in for        *)
(* stream_research that yields events of any kind, with or without the     *)
(* metadata keys the loop reads.                                           *)

\* an event of the given type without the metadata keys
Typed(type) == Event(type, RESEARCH_EXECUTION, <<>>, "", 0, 0, None)

\* the events the stand-in yields: source events that list no, one or two
\* sources or have no metadata, tool events that name a tool or none, and
\* events of another type that carry one of the keys
StubEvents ==
    {WithMetadata(Typed("sources_found"), "sources", sources) :
        sources \in {<<>>, <<"u1">>, <<"u1", "u2">>}}
    \cup {WithMetadata(Typed("tool_usage"), "tool_name", tool) :
        tool \in {"search", "think"}}
    \cup {Typed("sources_found"), Typed("tool_usage"),
          WithMetadata(Typed("stage_update"), "tool_name", "search"),
          WithMetadata(Typed("stage_update"), "sources", <<"u1">>)}

\* lines 246-254: the task starts
FeedStart ==
    /\ c_pc = "idle"
    /\ c_models' = <<"openai">>
    /\ runs' = <<NewRun("openai", now)>>
    /\ c_pc' = "feeding"
    /\ UNCHANGED <<now, c_keys, c_status, c_id, arrival, c_session, yielded>>
    /\ UNCHANGED <<streamVars, storeVars, sb_available, backendVars, registryVars>>

\* lines 258-295: the loop takes the next event
FeedEvent ==
    /\ c_pc = "feeding"
    /\ Len(yielded) < MaxYielded
    /\ \E event \in StubEvents :
         /\ runs' = <<ConsumeEvent(runs[1], event, now)>>
         /\ yielded' = Append(yielded, event)
    /\ UNCHANGED <<now, c_pc, c_models, c_keys, c_status, c_id, arrival, c_session>>
    /\ UNCHANGED <<streamVars, storeVars, sb_available, backendVars, registryVars>>

\* lines 309-324: the stand-in raises and the task returns its result
FeedRaise ==
    /\ c_pc = "feeding"
    /\ \E failure \in CmpFailures :
         runs' = <<FinishRun(runs[1], failure, now)>>
    /\ c_pc' = "fed"
    /\ UNCHANGED <<now, c_models, c_keys, c_status, c_id, arrival, c_session,
                   yielded>>
    /\ UNCHANGED <<streamVars, storeVars, sb_available, backendVars, registryVars>>

\* lines 297-339: the stand-in is exhausted and the task returns its result
FeedEnd ==
    /\ c_pc = "feeding"
    /\ runs' = <<FinishRun(runs[1], None, now)>>
    /\ c_pc' = "fed"
    /\ UNCHANGED <<now, c_models, c_keys, c_status, c_id, arrival, c_session,
                   yielded>>
    /\ UNCHANGED <<streamVars, storeVars, sb_available, backendVars, registryVars>>

-----------------------------------------------------------------------------
(* Specifications *)

Init ==
    /\ now = 0
    /\ s_pc = "idle"
    /\ s_req = NoRequest
    /\ s_status = 0
    /\ s_id = None
    /\ s_start = 0
    /\ s_gen = NewGen
    /\ s_eng = NewEngine
    /\ frames = <<>>
    /\ research_history = <<>>
    /\ model_metrics = InitModelMetrics
    /\ last = NoCall
    /\ c_pc = "idle"
    /\ c_models = <<>>
    /\ c_keys = <<>>
    /\ c_status = 0
    /\ c_id = None
    /\ runs = <<>>
    /\ arrival = <<>>
    /\ c_session = NoSession
    /\ sb_available \in BOOLEAN
    /\ sb_sessions = <<>>
    /\ sb_results = <<>>
    /\ m_models = InitializeModels
    /\ m_calls = <<>>
    /\ yielded = <<>>

\* one single-session streaming request
Next ==
    \/ StreamRequest
    \/ SessionStart
    \/ StreamBegin
    \/ StreamChunk
    \/ StreamEnd
    \/ StreamFail
    \/ StreamComplete
    \/ Tick

Spec == Init /\ [][Next]_vars

\* one comparison request with concurrent runs
NextCompare ==
    \/ CompareRequest
    \/ RunChunk
    \/ RunEnd
    \/ RunFail
    \/ CompareFinish

SpecCompare == Init /\ [][NextCompare]_vars

\* one comparison request with concurrent runs of up to MaxLiveChunks updates
NextCompareLive ==
    \/ CompareRequest
    \/ LiveChunk
    \/ RunEnd
    \/ RunFail
    \/ CompareFinish

\* the engine of every task eventually ends or raises, and the event loop
\* resumes the handler once asyncio.gather has every result
SpecCompareLive ==
    /\ Init /\ [][NextCompareLive]_vars
    /\ WF_vars(RunEnd \/ RunFail)
    /\ WF_vars(CompareFinish)

\* one comparison request of a single model, under the clock
NextTimed ==
    \/ TimedRequest
    \/ TimedChunk
    \/ RunEnd
    \/ RunFail
    \/ CompareFinish
    \/ Tick

SpecTimed == Init /\ [][NextTimed]_vars

\* the calls on the metrics store, in any order, under the clock
NextStore ==
    \/ RecordSingleRun
    \/ RecordComparisonSession
    \/ DeleteResearch
    \/ GetResearchHistory
    \/ GetModelComparison
    \/ StoreTick

SpecStore == Init /\ [][NextStore]_vars

\* single runs and timed comparison sessions are recorded and the aggregates
\* are read, in any order
NextAverages ==
    \/ RecordSingleRun
    \/ RecordTimedSession
    \/ GetModelComparison

SpecAverages == Init /\ [][NextAverages]_vars

\* the calls on the model registry, in any order
NextRegistry ==
    \/ ListAvailable
    \/ Resolve
    \/ IsSupported

SpecRegistry == Init /\ [][NextRegistry]_vars

\* one comparison request of a single model whose engine delivers any update
NextEngine ==
    \/ SingleRequest
    \/ AnyChunk
    \/ RunEnd
    \/ RunFail
    \/ CompareFinish

SpecEngine == Init /\ [][NextEngine]_vars

\* one task of a comparison over the events of the stand-in
NextFeed ==
    \/ FeedStart
    \/ FeedEvent
    \/ FeedRaise
    \/ FeedEnd

SpecFeed == Init /\ [][NextFeed]_vars

-----------------------------------------------------------------------------
(* Properties of the single-session stream, checked under Spec *)

\* the positions of frames that satisfy Test
Where(Test(_)) == {i \in 1..Len(frames) : Test(frames[i])}

IsSessionStart(f) == f.type = "session_start"
IsResearchComplete(f) == f.type = "research_complete"
IsTerminal(f) == f.type \in {"stage_complete", "error"}

\* the event that closes the orchestrator's stream: stage_complete, or the
\* error event of an engine failure
IsClosing(f) ==
    f.type = "stage_complete" \/ (f.type = "error" /\ f.error \in Failures)

Blank(t) == \A k \in 1..Len(t) : t[k] = "s"

StreamRequestInvalid(r) ==
    Blank(r.query) \/ Blank(r.api_key) \/ r.model \notin AvailableModelIds

\* C6: a streaming request with an empty query, an empty credential or an
\* unknown model is answered with status 400, and for it the engine is never
\* invoked and no frame is emitted.
C6_Claim ==
    (s_pc # "idle" /\ StreamRequestInvalid(s_req)) =>
        /\ s_status = 400
        /\ s_eng.calls = 0
        /\ frames = <<>>

\* the stage of the last primary event among the frames fs (the event
\* _process_workflow_node returned for a node), initialization if none
LastPrimaryStage(fs) ==
    LET P == {i \in 1..Len(fs) :
                \/ fs[i].type = "stage_update"
                \/ fs[i].type = "error" /\ fs[i].error = ProbeFailure}
    IN IF P = {} THEN INITIALIZATION
       ELSE fs[CHOOSE i \in P : \A j \in P : j <= i].stage

\* C7: when the engine raises, the orchestrator emits exactly one error event
\* with the failure description and the last-known stage and ends its stream;
\* afterwards the engine is neither consumed further nor invoked again.
C7_EngineFailure ==
    /\ [][(s_eng.status = "open" /\ s_eng'.status = "failed") =>
            /\ Len(frames') = Len(frames) + 1
            /\ SubSeq(frames', 1, Len(frames)) = frames
            /\ frames'[Len(frames')].type = "error"
            /\ frames'[Len(frames')].error = s_eng'.failure
            /\ frames'[Len(frames')].stage = LastPrimaryStage(frames)
            /\ s_gen'.pc = "done"]_vars
    /\ [][s_eng.status = "failed" =>
            /\ s_eng' = s_eng
            /\ s_gen' = s_gen
            /\ Where(IsClosing) = {i \in 1..Len(frames') : IsClosing(frames'[i])}]_vars
    /\ [](s_eng.status = "failed" => s_eng.calls = 1)

\* the engine raised after the final-report node: the error event carries
\* final_report
C7_Witness ==
    /\ s_eng.status = "failed"
    /\ Len(s_eng.delivered) > 0
    /\ frames[Len(frames)].type = "error"
    /\ frames[Len(frames)].stage = FINAL_REPORT

\* the order of the stages
StageRank(stage) ==
    CASE stage = INITIALIZATION -> 0
      [] stage = CLARIFICATION -> 1
      [] stage = RESEARCH_BRIEF -> 2
      [] stage = RESEARCH_EXECUTION -> 3
      [] stage = FINAL_REPORT -> 4
      [] stage = COMPLETED -> 5
      [] OTHER -> 6

\* the frames that carry a stage and are not error events
IsStaged(f) == f.type # "error" /\ f.stage # NoStage

StagesNeverDecrease ==
    \A i \in Where(IsStaged), j \in Where(IsStaged) :
        i < j => StageRank(frames[i].stage) <= StageRank(frames[j].stage)

\* C8, as claimed: for every sequence of node names the engine reports, the
\* stage labels of successive events other than error events never decrease.
C8_Original == StagesNeverDecrease

RECURSIVE Flatten(_)
Flatten(chunks) == IF chunks = <<>> THEN <<>> ELSE Head(chunks) \o Flatten(Tail(chunks))

\* the position of a node name in the workflow: clarification, brief, the
\* research nodes, final report
WorkflowRank(node_name) ==
    CASE node_name = "clarify_with_user" -> 1
      [] node_name = "write_research_brief" -> 2
      [] node_name = "final_report_generation" -> 4
      [] OTHER -> 3

NodesInWorkflowOrder ==
    LET nodes == Flatten(s_eng.delivered) IN
    \A i \in 1..Len(nodes), j \in 1..Len(nodes) :
        i < j => WorkflowRank(nodes[i].name) <= WorkflowRank(nodes[j].name)

\* C8, amended: the stage labels of successive events other than error events
\* never decrease when the engine reports its nodes in workflow order; the
\* label of a node's event is the one its name maps to, whatever came before.
C8_Amended == NodesInWorkflowOrder => StagesNeverDecrease

\* a completed session that went through clarification and then the final
\* report
C8_Witness ==
    /\ s_pc = "closed"
    /\ Len(s_eng.delivered) = 2
    /\ s_eng.delivered[1][1].name = "clarify_with_user"
    /\ s_eng.delivered[2][1].name = "final_report_generation"
    /\ s_eng.status = "ended"

-----------------------------------------------------------------------------
(* Properties of the concurrent comparison, checked under SpecCompare *)

Others(i) == (1..Len(runs)) \ {i}

\* C2: when one model's engine raises mid-stream and the engines of the other
\* models end normally, the failing model's result has success=false and a
\* non-empty error text, and the other results have success=true.
C2_Claim ==
    c_pc = "returned" =>
        \A i \in 1..Len(runs) :
            (/\ runs[i].eng.status = "failed"
             /\ Len(runs[i].eng.delivered) > 0
             /\ \A j \in Others(i) : runs[j].eng.status = "ended")
            => /\ ~c_session.results[i].success
               /\ c_session.results[i].error \notin {None, ""}
               /\ \A j \in Others(i) : c_session.results[j].success

\* C3: the returned session has one result per requested model, and its i-th
\* result is the one the i-th task returned for the i-th requested model,
\* whatever the order in which the tasks finished.
C3_ResultsInRequestOrder ==
    c_pc = "returned" =>
        /\ Len(c_session.results) = Len(c_models)
        /\ \A i \in 1..Len(c_models) :
              /\ c_session.results[i].model = c_models[i]
              /\ runs[i].model = c_models[i]
              /\ c_session.results[i] = runs[i].result.value

\* two different models compared, the second finished first
C3_Witness ==
    /\ c_pc = "returned"
    /\ Len(c_models) = 2
    /\ c_models[1] # c_models[2]
    /\ arrival = <<2, 1>>

\* the contents of the events of the chunks from position k on
RECURSIVE ChunkLines(_, _)
ChunkLines(chunks, k) ==
    IF k > Len(chunks) THEN <<>>
    ELSE LET events == ChunkEvents(chunks[k], 1, k) IN
         Flatten([e \in 1..Len(events) |-> events[e].content])
         \o ChunkLines(chunks, k + 1)

\* the report a task accumulates from the stream of its own engine
OwnReport(eng) ==
    <<"start">> \o ChunkLines(eng.delivered, 1)
    \o (CASE eng.status = "ended" -> <<"completed">>
          [] eng.status = "failed" -> <<"error occurred">>
          [] OTHER -> <<>>)

\* C4: a step of one task leaves every sibling as it is; a task finishes only
\* when its own engine stream ended or failed, and its result holds the
\* contents of its own events alone.
C4_SiblingsUnaffected ==
    /\ [][(c_pc = "running" /\ c_pc' = "running") =>
            \A i \in 1..Len(runs) :
                runs'[i] # runs[i] => \A j \in Others(i) : runs'[j] = runs[j]]_vars
    /\ [](\A i \in 1..Len(runs) :
            /\ runs[i].report_content = OwnReport(runs[i].eng)
            /\ runs[i].pc = "done" =>
                  /\ runs[i].eng.status \in {"ended", "failed"}
                  /\ runs[i].result.value.report_content = OwnReport(runs[i].eng))

\* the task that finished first had its engine raise; its sibling consumed an
\* update and ended normally
C4_Witness ==
    /\ c_pc = "returned"
    /\ Len(runs) = 2
    /\ runs[arrival[1]].eng.status = "failed"
    /\ runs[arrival[2]].eng.status = "ended"
    /\ Len(runs[arrival[2]].eng.delivered) > 0

CompareRequestInvalid ==
    \E i \in 1..Len(c_models) :
        \/ c_models[i] \notin AvailableModelIds
        \/ c_models[i] \notin DOMAIN c_keys
        \/ Blank(c_keys[c_models[i]])

\* C5: a comparison request with an unknown model id, or with a model that
\* has no credential or a blank one, is rejected before any run is launched:
\* no task exists, no session is created and nothing is persisted.
C5_RejectedWholesale ==
    (c_pc # "idle" /\ CompareRequestInvalid) =>
        /\ c_pc = "rejected"
        /\ runs = <<>>
        /\ c_session = NoSession
        /\ research_history = <<>>
        /\ model_metrics = InitModelMetrics
        /\ sb_sessions = <<>>
        /\ sb_results = <<>>

\* a rejected request whose first model is valid and has a credential and
\* whose second model is unknown
C5_Witness ==
    /\ c_pc = "rejected"
    /\ Len(c_models) = 2
    /\ c_models[1] \in AvailableModelIds
    /\ c_models[1] \in DOMAIN c_keys
    /\ ~Blank(c_keys[c_models[1]])
    /\ c_models[2] = UnknownModel

-----------------------------------------------------------------------------
(* Properties of the stage timings, checked under SpecTimed *)

TimingSum(timings) ==
    timings.clarification + timings.research_brief
    + timings.research_execution + timings.final_report

\* C9: in every ComparisonResult no StageTimings field is negative and the
\* four fields add up to the run's total duration.
C9_Claim ==
    c_pc = "returned" =>
        \A i \in 1..Len(c_session.results) :
            LET result == c_session.results[i] IN
            /\ \A stage \in DOMAIN result.stage_timings :
                  result.stage_timings[stage] >= 0
            /\ TimingSum(result.stage_timings) = result.duration

\* C10: on a stage change the elapsed time since the stage was entered is
\* added to the accumulator of the stage being left, and a repeated signal for
\* the current stage changes nothing.
C10_Claim ==
    [][(Len(runs) = 1 /\ Len(runs') = 1 /\ runs'[1] # runs[1]) =>
        LET old == runs[1]
            new == runs'[1]
        IN \A stage \in DOMAIN ZeroTimings :
              IF new.current_stage # old.current_stage
              THEN new.stage_timings[stage] =
                     old.stage_timings[stage]
                     + (IF stage = old.current_stage
                        THEN now - old.stage_start_time ELSE 0)
              ELSE new.pc = "running" =>
                     new.stage_timings[stage] = old.stage_timings[stage]]_vars

\* the stages a run entered: those of the primary events of the nodes its
\* engine delivered
EnteredStages(run) ==
    LET nodes == Flatten(run.eng.delivered) IN
    {ProcessWorkflowNode(nodes[k].name, nodes[k].data, 0).stage :
        k \in 1..Len(nodes)}

\* C11: the first stage signal of a run establishes the initial stage without
\* crediting any time to a predecessor stage, and a stage the run never
\* enters ends the run with zero elapsed time attributed to it.
C11_Claim ==
    \A i \in 1..Len(runs) :
        /\ (runs[i].pc = "running" /\ runs[i].eng.delivered = <<>>) =>
              /\ runs[i].current_stage = INITIALIZATION
              /\ runs[i].stage_timings = ZeroTimings
        /\ runs[i].pc = "done" =>
              \A stage \in DOMAIN ZeroTimings \ EnteredStages(runs[i]) :
                  runs[i].result.value.stage_timings[stage] = 0

\* the stages without a StageTimings field
Unbilled == {INITIALIZATION, COMPLETED, ERROR}

\* C12: only the four named stages accumulate time; while the tracker's
\* current stage is initialization, completed or error, the time that passes
\* is added to no StageTimings field, whether the run ends normally or with
\* an error.  A step of a run that starts in such a stage leaves every field
\* as it was or at the zero of a stage entered and left within the step.
C12_UnbilledStages ==
    [][\A i \in 1..Len(runs) :
          (Len(runs') = Len(runs) /\ runs[i].current_stage \in Unbilled) =>
              \A stage \in DOMAIN ZeroTimings :
                  \/ runs'[i].stage_timings[stage] = runs[i].stage_timings[stage]
                  \/ runs'[i].stage_timings[stage] = 0]_vars

\* the run stayed in the error stage for a unit of time and then failed, and
\* the time it billed is less than its duration
C12_Witness ==
    /\ Len(runs) = 1 /\ runs[1].pc = "done"
    /\ runs[1].eng.status = "failed"
    /\ runs[1].current_stage = ERROR
    /\ now - runs[1].stage_start_time > 0
    /\ TimingSum(runs[1].result.value.stage_timings) < runs[1].result.value.duration

-----------------------------------------------------------------------------
(* Properties of the event translator, checked under Spec on the frames of *)
(* the nodes the engine delivered                                          *)

\* the frame of the event _process_workflow_node returned for a node
IsPrimary(f) ==
    \/ f.type = "stage_update"
    \/ f.type = "error" /\ f.content = <<"error processing">>

IsSupplement(f) == f.type \in {"research_finding", "research_summary"}

AtPrimary(i) == IsPrimary(frames[i])

\* the positions of those frames, in order
PrimaryPositions == SelectSeq([i \in 1..Len(frames) |-> i], AtPrimary)

\* the nodes delivered so far, in order
DeliveredNodes == Flatten(s_eng.delivered)

\* the frame of the k-th node
NodeFrame(k) == frames[PrimaryPositions[k]]

\* every node delivered has its frame
EveryNodeTranslated == Len(PrimaryPositions) = Len(DeliveredNodes)

\* no exception left the generator: the endpoint built no error frame
NothingRaised ==
    \A i \in 1..Len(frames) : ~(frames[i].type = "error" /\ frames[i].stage = NoStage)

\* C13: for every node name and every payload, also one with no recognizable
\* field and one whose probing raises, translating the node returns an event
\* with a non-empty content and raises nothing to the orchestrator.
C13_NonEmptyContent ==
    /\ EveryNodeTranslated
    /\ \A k \in 1..Len(PrimaryPositions) : NodeFrame(k).content # <<>>
    /\ NothingRaised
    /\ s_eng.status = "open" => s_gen.pc = "awaiting"

\* an unmapped node with a plain payload and a node whose payload cannot be
\* probed were both translated
C13_Witness ==
    /\ EveryNodeTranslated
    /\ \E j, k \in 1..Len(DeliveredNodes) :
          /\ DeliveredNodes[j] = Node("custom_node", Plain)
          /\ DeliveredNodes[k].data = Broken

\* the payloads on which _generate_node_content takes its except branch
ExtractionFails(n) ==
    n.data.raises \/ (n.name = "research_supervisor" /\ n.data.unsized)

\* C14: a failure while extracting display content is never shown to the
\* client as an error event and never ends the session: the node yields its
\* stage_update event with the templated fallback content and the stream
\* goes on.
C14_Claim ==
    /\ EveryNodeTranslated
    /\ \A k \in 1..Len(PrimaryPositions) :
          ExtractionFails(DeliveredNodes[k]) =>
              /\ NodeFrame(k).type = "stage_update"
              /\ NodeFrame(k).content = <<"fallback">>
    /\ NothingRaised
    /\ s_eng.status = "open" => s_gen.pc = "awaiting"

\* the stage the specification's table gives a node name
TableStage(node_name) ==
    IF node_name = "clarify_with_user" THEN "clarification"
    ELSE IF node_name = "write_research_brief" THEN "research_brief"
    ELSE IF node_name = "final_report_generation" THEN "final_report"
    ELSE "research_execution"

\* C15: translate maps clarify_with_user to clarification,
\* write_research_brief to research_brief, research_supervisor to
\* research_execution, final_report_generation to final_report and every
\* other node name to research_execution.
C15_StageTable ==
    /\ EveryNodeTranslated
    /\ \A k \in 1..Len(PrimaryPositions) :
          ~DeliveredNodes[k].data.raises =>
              /\ NodeFrame(k).type = "stage_update"
              /\ NodeFrame(k).node_name = DeliveredNodes[k].name
              /\ NodeFrame(k).stage = TableStage(DeliveredNodes[k].name)

\* the brief and an unmapped node were translated
C15_Witness ==
    /\ EveryNodeTranslated
    /\ \E j, k \in 1..Len(DeliveredNodes) :
          /\ DeliveredNodes[j].name = "write_research_brief"
          /\ NodeFrame(j).stage = "research_brief"
          /\ DeliveredNodes[k].name = "custom_node"
          /\ NodeFrame(k).stage = "research_execution"

\* the supplementary frames between the frame of the k-th node and the frame
\* of the next node
Following(k) ==
    LET pos == PrimaryPositions
        to == IF k < Len(pos) THEN pos[k + 1] - 1 ELSE Len(frames)
    IN SelectSeq(SubSeq(frames, pos[k] + 1, to), IsSupplement)

\* type and finding index of each frame
Shape(fs) == [j \in 1..Len(fs) |-> <<fs[j].type, fs[j].index>>]

\* the substantial notes of a list, from position i on
RECURSIVE SubstantialNotes(_, _)
SubstantialNotes(notes, i) ==
    IF i > Len(notes) THEN <<>>
    ELSE (IF notes[i] > FindingMinLen THEN <<i>> ELSE <<>>)
         \o SubstantialNotes(notes, i + 1)

\* one research_finding per substantial note in note order, then the
\* research_summary of a payload that has one
ExpectedSupplement(data) ==
    LET idx == SubstantialNotes(data.notes, 1) IN
    [j \in 1..Len(idx) |-> <<"research_finding", idx[j]>>]
    \o (IF data.compressed THEN << <<"research_summary", 0>> >> ELSE <<>>)

\* C16: whenever a translated node's stage is research_execution and its
\* payload exposes a list of notes, the stream emits, after the node's
\* stage_update event and before any event of the next node, one
\* research_finding event per substantial note in note order and then one
\* research_summary event when the payload exposes a summary.
C16_Original ==
    /\ EveryNodeTranslated
    /\ \A k \in 1..Len(PrimaryPositions) :
          (/\ NodeFrame(k).stage = RESEARCH_EXECUTION
           /\ DeliveredNodes[k].data.notes # <<>>) =>
              Shape(Following(k)) = ExpectedSupplement(DeliveredNodes[k].data)

\* C16, amended: the supplementary events are those of the node named
\* research_supervisor: when its payload exposes a list of notes, its
\* stage_update event is followed, before any event of the next node, by one
\* research_finding event per substantial note in note order and then one
\* research_summary event when the payload exposes a summary; a node of any
\* other name has no supplementary event, whatever its stage and payload.
C16_Amended ==
    /\ EveryNodeTranslated
    /\ \A k \in 1..Len(PrimaryPositions) :
          IF DeliveredNodes[k].name = "research_supervisor"
          THEN (/\ NodeFrame(k).stage = RESEARCH_EXECUTION
                /\ DeliveredNodes[k].data.notes # <<>>) =>
                  Shape(Following(k)) = ExpectedSupplement(DeliveredNodes[k].data)
          ELSE Following(k) = <<>>

\* the supervisor's notes gave a finding and a summary, and an unmapped node
\* with notes gave none
C16_Witness ==
    /\ EveryNodeTranslated
    /\ \E j, k \in 1..Len(DeliveredNodes) :
          /\ DeliveredNodes[j] = Node("research_supervisor", Rich)
          /\ Shape(Following(j)) = << <<"research_finding", 2>>,
                                      <<"research_summary", 0>> >>
          /\ DeliveredNodes[k] = Node("custom_node", Rich)
          /\ Following(k) = <<>>

\* C17: session_start is handed to the client before any engine work begins:
\* no engine update is requested or consumed before it has been emitted.
C17_SessionStartFirst ==
    (s_gen.pc # "new" \/ s_eng.calls > 0 \/ s_eng.delivered # <<>>) =>
        /\ frames # <<>>
        /\ IsSessionStart(frames[1])
        /\ \A i \in 2..Len(frames) : ~IsSessionStart(frames[i])

\* the engine delivered an update to a session
C17_Witness ==
    /\ s_eng.calls = 1 /\ s_eng.delivered # <<>>
    /\ IsSessionStart(frames[1])

-----------------------------------------------------------------------------
(* Properties of the metrics store, checked under SpecStore *)

\* the single-run records of the in-memory store, in the order recorded
SingleRuns(history) == SelectSeq(history, HasResearchId)

\* the session was recorded in memory by the step
FellBack == research_history' # research_history

\* the step wrote the session row and the row of its one result
WroteBackend ==
    /\ Len(sb_sessions') = Len(sb_sessions) + 1
    /\ Len(sb_results') = Len(sb_results) + 1

\* C18: recordComparisonSession attempts the durable backend first; when the
\* backend is absent or its write fails it records the session in the
\* in-memory store instead; in both cases it returns success.
C18_DurableFirst ==
    [][(last'.op = "store_comparison_session" /\ Recorded' > Recorded) =>
          /\ last'.ret = TRUE
          /\ FellBack <=> ~(sb_available /\ WroteBackend)
          /\ ~sb_available => UNCHANGED backendVars
          /\ IF FellBack
             THEN /\ Len(research_history') = Len(research_history) + 1
                  /\ SubSeq(research_history', 1, Len(research_history))
                       = research_history
                  /\ LET item == research_history'[Len(research_history')] IN
                     /\ item.type = "comparison_session"
                     /\ item.data.session_id = last'.arg
             ELSE UNCHANGED <<research_history, model_metrics>>]_vars

\* the backend was available, the write of the result row failed, and the
\* session is in memory and reported as stored
C18_Witness ==
    /\ last.op = "store_comparison_session" /\ last.ret = TRUE
    /\ sb_available
    /\ Len(sb_sessions) = 1 /\ sb_results = <<>>
    /\ Len(research_history) = 1
    /\ research_history[1].type = "comparison_session"

\* C19: deleteRun(id) returns true exactly when a record with that id existed
\* in the store and has been removed by the call, and false otherwise; a
\* second call with the same id returns false.
C19_Claim ==
    [][(last'.op = "delete_research" /\ now' = now) =>
          LET id == last'.arg
              existed ==
                  \E k \in 1..Len(research_history) :
                      /\ HasResearchId(research_history[k])
                      /\ research_history[k].research_id = id
              remains ==
                  \E k \in 1..Len(research_history') :
                      /\ HasResearchId(research_history'[k])
                      /\ research_history'[k].research_id = id
          IN /\ last'.ret = existed
             /\ last'.ret => ~remains
             /\ ~last'.ret => research_history' = research_history
             /\ (last.op = "delete_research" /\ last.arg = id /\ last.ret = TRUE)
                   => last'.ret = FALSE]_vars

\* C20: history(limit) returns the recorded single runs most recent first
\* and bounded by limit: of the n single-run records in the store it returns
\* the min(n, limit) most recent, in descending timestamp order.
C20_Claim ==
    last.op = "get_research_history" =>
        LET limit == last.arg
            got == last.ret.history
            singles == SingleRuns(research_history)
            n == Len(singles)
        IN /\ Len(got) = (IF n < limit THEN n ELSE limit)
           /\ \A i, j \in 1..Len(got) :
                 i < j => got[i].timestamp >= got[j].timestamp
           /\ \A i \in 1..Len(got) :
                 \E k \in 1..n : HistoryItem(singles[k]) = got[i]
           /\ \A k \in 1..n :
                 (Len(got) > 0 /\ singles[k].timestamp > got[Len(got)].timestamp)
                   => \E i \in 1..Len(got) : got[i] = HistoryItem(singles[k])

-----------------------------------------------------------------------------
(* Properties of the aggregates, checked under SpecStore *)

\* the runs of model recorded anywhere: its requests in the in-memory metrics
\* and its rows in the durable table
RecordedRuns(model) ==
    Len(model_metrics[model].requests)
    + Len(SelectSeq(sb_results, LAMBDA r : r.result.model = model))

\* the entries of model in a ModelComparison
EntriesOf(comparison, model) ==
    SelectSeq(comparison.models, LAMBDA e : e.model = model)

\* an entry with a run count of zero and zero averages
IsZeroEntry(e) ==
    /\ e.total_requests = 0
    /\ e.average_duration = 0 /\ e.success_rate = 0
    /\ e.average_sources_found = 0 /\ e.average_word_count = 0

\* C21: modelComparison reports a model with zero recorded runs with a run
\* count of zero and zero averages, whether the aggregates come from the
\* durable backend or from the in-memory fallback.
C21_Claim ==
    last.op = "get_model_comparison" =>
        \A i \in 1..Len(MetricsModels) :
            RecordedRuns(MetricsModels[i]) = 0 =>
                LET es == EntriesOf(last.ret, MetricsModels[i]) IN
                Len(es) = 1 /\ IsZeroEntry(es[1])

\* the runs of model that an item of research_history holds: one for the
\* record of a single run of it, and one per result of it in a session
RunsInItem(item, model) ==
    IF HasResearchId(item) THEN (IF item.model = model THEN 1 ELSE 0)
    ELSE Len(SelectSeq(item.data.results, LAMBDA r : r.model = model))

\* the runs of model currently held in the stored history, in memory and in
\* the durable table
HeldRuns(model) ==
    Sum([k \in 1..Len(research_history) |-> RunsInItem(research_history[k], model)])
    + Len(SelectSeq(sb_results, LAMBDA r : r.result.model = model))

\* the run count a ModelComparison reports for model
ReportedRuns(comparison, model) ==
    Sum([k \in 1..Len(comparison.models) |->
            IF comparison.models[k].model = model
            THEN comparison.models[k].total_requests ELSE 0])

\* C22: after any sequence of recordings and deletions, the total run count
\* that modelComparison reports for a model equals the number of that model's
\* runs currently held in the stored history.
C22_Claim ==
    last.op = "get_model_comparison" =>
        \A i \in 1..Len(MetricsModels) :
            ReportedRuns(last.ret, MetricsModels[i]) = HeldRuns(MetricsModels[i])

-----------------------------------------------------------------------------
(* Properties of the recording calls, checked under SpecStore *)

\* the step is a call of store_research_metrics
RecordsRun == last'.op = "store_research_metrics" /\ Recorded' > Recorded

\* C23: recordSingleRun only appends: every record that was in the history
\* before the call is still there and unchanged after it, also when the new
\* record carries the session id of an earlier record.
C23_AppendOnly ==
    [][RecordsRun =>
          /\ Len(research_history') = Len(research_history) + 1
          /\ SubSeq(research_history', 1, Len(research_history)) = research_history
          /\ research_history'[Len(research_history')].research_id = last'.arg]_vars

\* two runs were recorded under the same id, and both records are held
C23_Witness ==
    /\ last.op = "store_research_metrics"
    /\ Len(research_history) = 2
    /\ HasResearchId(research_history[1]) /\ HasResearchId(research_history[2])
    /\ research_history[1].research_id = research_history[2].research_id
    /\ research_history[1] # research_history[2]

-----------------------------------------------------------------------------
(* Properties of the end of a comparison, checked under SpecCompare *)

\* the step changes what the metrics store or the durable backend holds
StoreWritten ==
    <<research_history, model_metrics, sb_sessions, sb_results>>'
        # <<research_history, model_metrics, sb_sessions, sb_results>>

\* the complete copies of session in the in-memory history
MemoryCopies(history, session) ==
    Len(SelectSeq(history,
                  LAMBDA item : ~HasResearchId(item) /\ item.data = session))

\* the complete copies of session in the durable tables: its row, when the
\* rows of all its results are there too
DurableCopies(sessions, results, session) ==
    IF Len(SelectSeq(results, LAMBDA r : r.session_id = session.session_id))
          = Len(session.results)
    THEN Len(SelectSeq(sessions, LAMBDA r : r.session_id = session.session_id))
    ELSE 0

\* C24: in compare the ComparisonSession is persisted exactly once and only
\* after every per-model run has finished, and it is returned to the caller
\* also when the durable write fails.
C24_PersistOnceThenReturn ==
    [][/\ StoreWritten =>
            /\ c_pc = "running" /\ c_pc' = "returned"
            /\ \A i \in 1..Len(runs) : runs[i].pc = "done"
            /\ last' = Call("store_comparison_session", c_id, TRUE)
       /\ (c_pc = "running" /\ c_pc' = "returned") =>
            /\ StoreWritten
            /\ c_status' = 200
            /\ c_session'.session_id = c_id
            /\ Len(c_session'.results) = Len(c_models)
            /\ MemoryCopies(research_history', c_session')
                 + DurableCopies(sb_sessions', sb_results', c_session') = 1
            /\ MemoryCopies(research_history, c_session')
                 + DurableCopies(sb_sessions, sb_results, c_session') = 0]_vars

\* the durable write failed after the session row was inserted, the engine of
\* one run had raised, and the session was returned and is held once, in memory
C24_Witness ==
    /\ c_pc = "returned" /\ c_status = 200
    /\ sb_available /\ Len(sb_sessions) = 1
    /\ Len(sb_results) < Len(c_models)
    /\ c_session.session_id = c_id
    /\ \E i \in 1..Len(runs) : runs[i].eng.status = "failed"
    /\ MemoryCopies(research_history, c_session) = 1
    /\ DurableCopies(sb_sessions, sb_results, c_session) = 0

\* the comparison returned a session with one entry per requested model, in
\* the order of the request
ReturnedComplete ==
    /\ c_pc = "returned" /\ c_status = 200
    /\ c_session.session_id = c_id
    /\ Len(c_session.results) = Len(c_models)
    /\ \A i \in 1..Len(c_models) : c_session.results[i].model = c_models[i]

\* C25: if every per-model engine stream eventually ends or fails, compare
\* eventually returns one complete ComparisonSession with an entry for every
\* requested model, also when some of the runs failed.
C25_EventuallyReturns == (c_pc = "running") ~> ReturnedComplete

\* a comparison of two models returned complete after the engine of one run
\* raised and the engine of the other ended
C25_Witness ==
    /\ ReturnedComplete
    /\ Len(c_models) = 2
    /\ \E i, j \in 1..2 :
          runs[i].eng.status = "failed" /\ runs[j].eng.status = "ended"

\* the keys of the record of a single run and of the item of a session
RunKeys == {"research_id", "model", "duration", "query", "success", "timestamp",
            "error"}
SessionKeys == {"type", "data", "timestamp"}

\* an item of the history has every key of its kind, and the session of a
\* session item has its results
IsCompleteItem(item) ==
    IF HasResearchId(item) THEN DOMAIN item = RunKeys
    ELSE /\ DOMAIN item = SessionKeys
         /\ DOMAIN item.data = {"session_id", "query", "timestamp", "results"}
         /\ Len(item.data.results) >= 1

\* the request list, the total duration and the success count of a model
\* agree
TotalsAgree(metrics) ==
    LET requests == metrics.requests IN
    /\ metrics.total_duration
         = Sum([k \in 1..Len(requests) |-> requests[k].duration])
    /\ metrics.success_count
         = Len(SelectSeq(requests, LAMBDA req : req.success))

\* C26: whatever the order in which tasks record into the in-memory store, at
\* every suspension point each history entry is complete and, for every model,
\* the request list, the total duration and the success count agree.
C26_NoHalfBuiltRecord ==
    /\ \A k \in 1..Len(research_history) : IsCompleteItem(research_history[k])
    /\ \A m \in DOMAIN model_metrics : TotalsAgree(model_metrics[m])

\* a single run and a comparison session of the same model were both recorded
\* in memory, and the model's totals cover both
C26_Witness ==
    /\ \E j, k \in 1..Len(research_history) :
          /\ HasResearchId(research_history[j])
          /\ ~HasResearchId(research_history[k])
    /\ \E m \in DOMAIN model_metrics :
          /\ Len(model_metrics[m].requests) = 2
          /\ model_metrics[m].total_duration > 0
          /\ model_metrics[m].success_count = 2

\* C27: any two research runs, also two started within the same second, get
\* different session ids, so that a record id in the metrics store addresses
\* one run only.
C27_Claim ==
    \A j, k \in 1..Len(research_history) :
        (/\ j # k
         /\ HasResearchId(research_history[j])
         /\ HasResearchId(research_history[k]))
        => research_history[j].research_id # research_history[k].research_id

-----------------------------------------------------------------------------
(* Properties of the record of a single session, checked under Spec *)

\* the step closes a session whose engine stream ended
CompletesNormally ==
    s_pc = "streaming" /\ s_pc' = "closed" /\ s_eng.status = "ended"

\* C28: after a single-session stream completes normally the metrics store
\* holds exactly one new record for that session, with the requested model,
\* the duration measured from session_start to the end of the stream, and
\* success = true.
C28_OneRecordPerSession ==
    [][/\ CompletesNormally =>
            /\ Len(research_history') = Len(research_history) + 1
            /\ SubSeq(research_history', 1, Len(research_history))
                 = research_history
            /\ LET record == research_history'[Len(research_history')]
                   closing == frames'[Len(frames')]
               IN /\ record.research_id = s_id
                  /\ record.model = s_req.model
                  /\ record.query = s_req.query
                  /\ record.success = TRUE /\ record.error = None
                  /\ record.duration = now - s_start
                  /\ closing.type = "research_complete"
                  /\ closing.duration = record.duration
            /\ Len(model_metrics'[s_req.model].requests)
                 = Len(model_metrics[s_req.model].requests) + 1
       /\ research_history' # research_history => s_pc' = "closed" /\ s_pc # "closed"
      ]_vars

\* a session that started after the clock's origin ended normally after some
\* updates, took time, and has its one record
C28_Witness ==
    /\ s_pc = "closed" /\ s_eng.status = "ended"
    /\ s_eng.delivered # <<>>
    /\ s_start > 0
    /\ Len(research_history) = 1
    /\ research_history[1].research_id = s_id
    /\ research_history[1].duration > 0
    /\ research_history[1].duration = now - s_start

-----------------------------------------------------------------------------
(* Properties of the model registry, checked under SpecRegistry *)

\* the ids of the configurations that listAvailable returns
ListedIds ==
    LET listed == GetAvailableModels(m_models).models IN
    {listed[k].id : k \in 1..Len(listed)}

\* the logged calls of method op
CallsOf(op) == SelectSeq(m_calls, LAMBDA c : c.op = op)

\* C29: isSupported(id) is true exactly for the ids that listAvailable
\* returns; resolve(id) returns the configuration carrying that id for those
\* ids and NotFound, never an exception, for every other id; listAvailable
\* returns the same sequence in the same order on every call and no call
\* changes the registry.
C29_Registry ==
    /\ m_models = InitializeModels
    /\ ListedIds = AvailableModelIds
    /\ LET supported == CallsOf("validate_model") IN
       \A k \in 1..Len(supported) :
           supported[k].ret = (supported[k].arg \in ListedIds)
    /\ LET resolved == CallsOf("get_model_config") IN
       \A k \in 1..Len(resolved) :
           IF resolved[k].arg \in ListedIds
           THEN /\ Len(resolved[k].ret) = 1
                /\ resolved[k].ret[1].id = resolved[k].arg
           ELSE resolved[k].ret = <<>>
    /\ LET listings == CallsOf("get_available_models") IN
       \A k \in 1..Len(listings) :
           /\ listings[k].ret = listings[1].ret
           /\ Len(listings[k].ret.models) = Len(RegistryIds)
           /\ \A i \in 1..Len(RegistryIds) :
                 listings[k].ret.models[i].id = RegistryIds[i]

\* an id that is not registered was resolved to NotFound, and the registry
\* was listed afterwards
C29_Witness ==
    /\ Len(m_calls) = 2
    /\ m_calls[1] = Call("get_model_config", UnknownModel, <<>>)
    /\ m_calls[2].op = "get_available_models"
    /\ Len(m_calls[2].ret.models) = 3

-----------------------------------------------------------------------------
(* Properties of the node count, checked under Spec *)

\* the (node_name, node_data) pairs consumed from the engine
ConsumedPairs == Sum([k \in 1..Len(s_eng.delivered) |-> Len(s_eng.delivered[k])])

\* C30: on normal exhaustion of the engine's update stream the total node
\* count carried by the stage_complete event equals the number of
\* (nodeName, payload) pairs the orchestrator consumed in that session.
C30_Claim ==
    \A i \in 1..Len(frames) :
        frames[i].type = "stage_complete" => frames[i].count = ConsumedPairs

-----------------------------------------------------------------------------
(* Properties of the counters of a comparison task, checked under SpecFeed *)

\* the source events and the tool events among the events yielded
SourceEvents == SelectSeq(yielded, LAMBDA e : e.type = "sources_found")
ToolEvents ==
    SelectSeq(yielded, LAMBDA e : e.type = "tool_usage" /\ "tool_name" \in DOMAIN e)

\* the names of the tool events up to position k, each once, in order of
\* first appearance
RECURSIVE FirstAppearances(_)
FirstAppearances(k) ==
    IF k = 0 THEN <<>>
    ELSE LET before == FirstAppearances(k - 1)
             name == ToolEvents[k].tool_name
         IN IF \E j \in 1..Len(before) : before[j] = name THEN before
            ELSE Append(before, name)

\* the sources listed in the metadata of the source events
ListedSources ==
    Sum([k \in 1..Len(SourceEvents) |->
            IF "sources" \in DOMAIN SourceEvents[k]
            THEN Len(SourceEvents[k].sources) ELSE 0])

\* C31: for each run of a comparison the result's sources-found count equals
\* the total number of sources listed in the metadata of that run's source
\* events, and its tool list holds every tool name of that run's tool-usage
\* metadata exactly once, in order of first appearance.
C31_CountersFollowMetadata ==
    \A i \in 1..Len(runs) :
        /\ runs[i].sources_found = ListedSources
        /\ runs[i].supervisor_tools = FirstAppearances(Len(ToolEvents))
        /\ runs[i].pc = "done" =>
              /\ runs[i].result.value.sources_found = ListedSources
              /\ runs[i].result.value.supervisor_tools_used
                   = FirstAppearances(Len(ToolEvents))

\* the task returned after a source event with two sources and two tool
\* events naming the same tool
C31_Witness ==
    /\ c_pc = "fed" /\ runs[1].pc = "done"
    /\ Len(yielded) = 3
    /\ yielded[1].type = "sources_found" /\ ListedSources = 2
    /\ Len(ToolEvents) = 2
    /\ runs[1].result.value.supervisor_tools_used = <<"search">>

-----------------------------------------------------------------------------
(* Properties of the failures of a single session, checked under Spec *)

\* the frame of an exception that left stream_research (main.py, lines
\* 168-176) and the frame of an error event it yielded
IsExceptionFrame(f) == f.type = "error" /\ f.stage = NoStage
IsErrorEventFrame(f) == f.type = "error" /\ f.stage # NoStage

\* the nodes delivered whose processing raised
RaisingNodes ==
    {<<k, j>> \in (1..Len(s_eng.delivered)) \X (1..2) :
        /\ j <= Len(s_eng.delivered[k])
        /\ s_eng.delivered[k][j].data.raises}

\* the frames of the error events that carry the given error text
ErrorFrames(text) ==
    {k \in 1..Len(frames) : IsErrorEventFrame(frames[k]) /\ frames[k].error = text}

\* C32: stream_research never propagates an exception to its consumer: a
\* failure of the engine stream becomes one error event that carries the
\* failure and is the last event of the generator, which then is exhausted; a
\* failure of _process_workflow_node becomes one error event per node; no
\* frame of an exception out of the generator is ever written.
C32_FailuresBecomeErrorEvents ==
    /\ \A k \in 1..Len(frames) : ~IsExceptionFrame(frames[k])
    /\ Cardinality(ErrorFrames(ProbeFailure)) = Cardinality(RaisingNodes)
    /\ s_eng.status = "failed" =>
          /\ s_gen.pc = "done"
          /\ Cardinality(ErrorFrames(s_eng.failure)) = 1
          /\ \A k \in ErrorFrames(s_eng.failure), j \in 1..Len(frames) :
                j > k => frames[j].type = "research_complete"
    /\ s_eng.status # "failed" =>
          \A failure \in Failures : ErrorFrames(failure) = {}

\* the engine raised after a node whose processing raised, and the session
\* closed
C32_Witness ==
    /\ s_pc = "closed" /\ s_eng.status = "failed"
    /\ RaisingNodes # {}
    /\ ErrorFrames(s_eng.failure) # {}

\* the frames that carry an error event of stream_research
ErrorEventFrames == {k \in 1..Len(frames) : IsErrorEventFrame(frames[k])}

\* the runs recorded as successful under the id of the session
RecordedSuccessful ==
    {k \in 1..Len(research_history) :
        /\ research_history[k].research_id = s_id
        /\ research_history[k].success}

\* C33: a single-session run whose event stream contains an error event is
\* never followed by a research_complete frame and is never recorded in the
\* metrics store with success = true.
C33_Claim ==
    ErrorEventFrames # {} =>
        /\ \A k \in 1..Len(frames) : frames[k].type # "research_complete"
        /\ RecordedSuccessful = {}

-----------------------------------------------------------------------------
(* Properties of the result of a comparison task, checked under SpecFeed *)

\* the ComparisonResults the handler keeps of the finished tasks
KeptResults ==
    IF \A i \in 1..Len(runs) : runs[i].pc = "done"
    THEN ValidResults(Gather(runs, arrival), c_models)
    ELSE <<>>

-----------------------------------------------------------------------------
(* Properties of the counters of a comparison over the engine, checked     *)
(* under SpecEngine                                                        *)

\* the types of the events stream_research emits
EmittedTypes == {"stage_start", "stage_update", "research_finding",
                 "research_summary", "stage_complete", "error"}

\* the events stream_research has yielded to task i: the initial event, those
\* of the updates delivered, and the event that closed the stream
StreamedEvents(i) ==
    LET eng == runs[i].eng
        RECURSIVE Updates(_)
        Updates(k) == IF k = 0 THEN <<>>
                      ELSE Updates(k - 1) \o ChunkEvents(eng.delivered[k], 1, k)
    IN GenStart(CompareQuery, runs[i].model).out
       \o Updates(Len(eng.delivered))
       \o (IF eng.status = "ended" THEN GenEnd(runs[i].gen).out
           ELSE IF eng.status = "failed"
           THEN GenFail(runs[i].gen, eng.failure).out
           ELSE <<>>)

\* C35: whatever the engine emits, every ComparisonResult has sources-found
\* zero and an empty tool list: stream_research only emits stage_start,
\* stage_update, research_finding, research_summary, stage_complete and error
\* events.
C35_NoSourcesNoTools ==
    /\ \A i \in 1..Len(runs) :
          /\ \A k \in 1..Len(StreamedEvents(i)) :
                StreamedEvents(i)[k].type \in EmittedTypes
          /\ runs[i].sources_found = 0 /\ runs[i].supervisor_tools = <<>>
          /\ runs[i].pc = "done" =>
                /\ runs[i].result.value.sources_found = 0
                /\ runs[i].result.value.supervisor_tools_used = <<>>
    /\ c_pc = "returned" =>
          \A i \in 1..Len(c_session.results) :
              /\ c_session.results[i].sources_found = 0
              /\ c_session.results[i].supervisor_tools_used = <<>>

\* the comparison returned after the engine delivered the supervisor's update
\* with notes and a summary and then the final report
C35_Witness ==
    /\ c_pc = "returned" /\ Len(runs) = 1
    /\ runs[1].eng.delivered = << <<Node("research_supervisor", Rich)>>,
                                  <<Node("final_report_generation", Plain)>> >>
    /\ runs[1].eng.status = "ended"
    /\ c_session.results[1].sources_found = 0

-----------------------------------------------------------------------------
(* Properties of where a comparison session is recorded, checked under     *)
(* SpecStore                                                               *)

\* the step is a call of store_comparison_session
RecordsSession == StoreWritten /\ last'.op = "store_comparison_session"

\* the rows and items a step adds
SessionRowsAdded == Len(sb_sessions') - Len(sb_sessions)
ResultRowsAdded == Len(sb_results') - Len(sb_results)
ItemsAdded == Len(research_history') - Len(research_history)

\* C36: after recordComparisonSession returns, the session's data is in
\* exactly one store: either the durable backend holds the session row and all
\* its result rows and memory holds nothing of it, or memory holds the session
\* and the durable backend holds none of its rows.
C36_Claim ==
    [][RecordsSession =>
          \/ /\ SessionRowsAdded = 1 /\ ResultRowsAdded = 1
             /\ ItemsAdded = 0 /\ model_metrics' = model_metrics
          \/ /\ SessionRowsAdded = 0 /\ ResultRowsAdded = 0
             /\ ItemsAdded = 1]_vars

\* the runs of model recorded with the comparison sessions that the
\* in-memory fallback took
FallbackRuns(model) ==
    Sum([k \in 1..Len(research_history) |->
            IF HasResearchId(research_history[k]) THEN 0
            ELSE RunsInItem(research_history[k], model)])

\* C37: every comparison session for which recordComparisonSession returned
\* success is counted by the next modelComparison call, also when it was
\* recorded through the in-memory fallback while the durable backend is
\* configured and holds earlier data: the run count reported for a model
\* includes its runs of the sessions the fallback took.
C37_Claim ==
    last.op = "get_model_comparison" =>
        \A i \in 1..Len(MetricsModels) :
            ReportedRuns(last.ret, MetricsModels[i]) >= FallbackRuns(MetricsModels[i])

\* the in-memory history holds a comparison session
SessionInMemory ==
    \E k \in 1..Len(research_history) : ~HasResearchId(research_history[k])

\* the in-memory history holds the record of the single run id
HoldsRun(history, id) ==
    \E k \in 1..Len(history) :
        HasResearchId(history[k]) /\ history[k].research_id = id

\* C38: recording a comparison session in memory does not disturb the
\* operations on single runs: history(limit) still returns the single runs
\* recorded, and deleteRun(id) still removes an existing single run and
\* returns true.
C38_Claim ==
    [][(SessionInMemory /\ now' = now) =>
          /\ (last'.op = "delete_research" /\ HoldsRun(research_history, last'.arg))
                => (last'.ret = TRUE /\ ~HoldsRun(research_history', last'.arg))
          /\ (last'.op = "get_research_history"
                /\ research_history' = research_history)
                => LET n == Len(SingleRuns(research_history))
                       limit == last'.arg
                   IN Len(last'.ret.history) = (IF n < limit THEN n ELSE limit)]_vars

-----------------------------------------------------------------------------
(* Properties of the models of a comparison, checked under SpecCompare *)

\* research_id = f"{session_id}_{model}" of task i
RunResearchId(i) == <<c_id, runs[i].model>>

\* C39: a comparison request that lists the same model id more than once is
\* rejected by validation before any run starts, so no two runs of a
\* comparison share the derived session id and no model is counted twice.
C39_Claim ==
    /\ (\E i, j \in 1..Len(c_models) : i # j /\ c_models[i] = c_models[j])
          => c_pc \in {"idle", "rejected"} /\ runs = <<>>
    /\ \A i, j \in 1..Len(runs) : i # j => RunResearchId(i) # RunResearchId(j)

-----------------------------------------------------------------------------
(* Properties of the averages of the in-memory aggregates, checked under   *)
(* SpecAverages                                                            *)

\* the requests of model in the in-memory metrics that recorded stage timings
TimedRequests(model) ==
    SelectSeq(model_metrics[model].requests,
              LAMBDA req : "stage_timings" \in DOMAIN req)

\* the quotient q has the value of n / d
IsQuotient(q, n, d) == q[1] * d = n * q[2]

\* C40: in the in-memory fallback the average stage time a model is reported
\* with equals the sum of that stage's time over the model's runs that
\* recorded stage timings divided by the number of those runs; single runs,
\* which record no stage timings, do not change the average.
C40_Claim ==
    (last.op = "get_model_comparison" /\ ~sb_available) =>
        \A i \in 1..Len(MetricsModels) :
            LET model == MetricsModels[i]
                timed == TimedRequests(model)
                es == EntriesOf(last.ret, model)
            IN timed # <<>> =>
                 \A k \in 1..Len(es), f \in StageFields :
                     IsQuotient(es[k].average_stage_timings[f],
                                Sum([j \in 1..Len(timed) |-> timed[j].stage_timings[f]]),
                                Len(timed))

====
